---- MODULE Spec2Model ----
(***************************************************************************)
(* Tracking-event pipeline of the logistics portal: the tracking_events    *)
(* and shipments tables as the model classes of backend/models/Shipment.js *)
(* read and write them, the ingestion entry points of TrackingService, the *)
(* industry-feed adapter's normalisation, the poll scheduler and the       *)
(* periodic update of the real-time hub.                                   *)
(*                                                                         *)
(* Every db.execute that returns has performed its statement               *)
(* (Database.commit and Database.rollback are no-ops, so a statement is    *)
(* never undone) and one that throws has written nothing.  A JavaScript    *)
(* undefined bound to a statement is SQL NULL, and a comparison with NULL  *)
(* in a WHERE clause selects no row.  The CHECK constraints of the schema  *)
(* are not part of the model: an INSERT or UPDATE that returns succeeds    *)
(* whatever value it writes.  Times are seconds.                           *)
(*                                                                         *)
(* services/NotificationService.js is not among the sources: the retry     *)
(* policy of its jobs follows section 4.6 of the functional specification  *)
(* with the job options of config.queue.                                   *)
(***************************************************************************)
EXTENDS Integers, Sequences, FiniteSets, TLC

VARIABLES
    events,             \* rows of tracking_events, in insertion (created_at) order
    shipments,          \* rows of shipments, by shipment_id
    now,                \* the wall clock (new Date(), SYSDATE)
    connectedClients,   \* RealTimeTrackingService.connectedClients
    roomSubscriptions,  \* RealTimeTrackingService.roomSubscriptions
    result,             \* what the last handler did and returned (at: the
                        \* time of a scheduler tick)
    subscriptions,      \* rows of tracking_subscriptions, in insertion order
    published,          \* the events (by row) broadcastTrackingEvent emitted
    dispatched,         \* the calls of notificationService.sendTrackingNotification:
                        \* the event (by row), the subscription, and whether
                        \* the call returned (ok) or threw
    jobs,               \* the notification jobs of the dispatcher's queue
    inflight,           \* the calls of handleShipmentSubscription suspended in
                        \* await Shipment.findByAwb: the socket, the AWB and,
                        \* once the socket's record has left connectedClients,
                        \* the clientInfo object the call still holds
    server,             \* Server: how far shutdown has come, whether a
                        \* periodic update is in progress and for which
                        \* shipments, and the sockets sent service_shutdown
    pending,            \* the calls of updateTrackingFromExternal suspended
                        \* between the SELECT of checkDuplicate and the INSERT
                        \* of TrackingEvent.create
    client              \* the push client of the frontend (the singleton
                        \* RealTimeTrackingService): its socket, its flags and
                        \* counters, the timers handleReconnect has set, and
                        \* what it last emitted to its listeners

vars == <<events, shipments, now, connectedClients, roomSubscriptions, result,
          subscriptions, published, dispatched, jobs, inflight, server, pending,
          client>>

-----------------------------------------------------------------------------
(* Bounds of the model *)

MaxEvents == 2          \* tracking events persisted on top of the creation events
MaxBatch == 2           \* upstream events in one fetch response
MaxClock == 2           \* clock steps of half an hour
MaxSubs == 2            \* rows of tracking_subscriptions
MaxNotified == 1        \* tracking events persisted while subscriptions exist
MaxJobs == 2            \* notification jobs in the dispatcher's queue
MaxTicks == 4           \* clock steps of two seconds
MaxPending == 2         \* refreshes suspended between duplicate check and INSERT
FleetBatchLimit == 1    \* rows of one batch in the fleet model (the program fetches 100)

(* Program constants *)

DedupWindowSeconds == 300
BatchLimit == 100
DefaultFrequencyMinutes == 30
QueueAttempts_OneMore == 3 + 1   \* a retry after the third failed attempt
QueueAttempts == 3          \* config.queue.defaultJobOptions.attempts
BackoffDelaySeconds == 2    \* config.queue.defaultJobOptions.backoff.delay (2000 ms)
MaxBackoffSeconds == 30     \* the cap of the backoff

-----------------------------------------------------------------------------
(* Values *)

NULL == "NULL"          \* SQL NULL / JavaScript undefined or null
NoTime == <<>>          \* a NULL timestamp; the timestamp t is <<t>>

ShipmentIds == {"s1", "s2"}
UnknownId == "s9"       \* an id no shipment has
AllIds == ShipmentIds \cup {UnknownId}
Customers == {"c1", "c2"}
Clients == {"k1"}

Owner(sid) == IF sid = "s1" THEN "c1" ELSE "c2"
Origin(sid) == "SIN"

Statuses ==
    {"CREATED", "BOOKED", "MANIFESTED", "DEPARTED", "IN_TRANSIT", "ARRIVED",
     "CUSTOMS_CLEARANCE", "OUT_FOR_DELIVERY", "DELIVERED", "CANCELLED",
     "ON_HOLD", "EXCEPTION"}

Abs(x) == IF x < 0 THEN -x ELSE x

Range(f) == {f[i] : i \in DOMAIN f}

\* data.name || default, for a key the caller may leave out
Field(data, name, default) == IF name \in DOMAIN data THEN data[name] ELSE default

-----------------------------------------------------------------------------
(* TrackingEvent *)

\* A statusMapping table with a key for the event code CANCELLED
statusMapping_WithCancelled(code) ==
    CASE code = "SHIPMENT_CREATED" -> "CREATED"
      [] code = "CARGO_COLLECTED" -> "BOOKED"
      [] code = "MANIFESTED" -> "MANIFESTED"
      [] code = "FLIGHT_DEPARTED" -> "DEPARTED"
      [] code = "IN_TRANSIT" -> "IN_TRANSIT"
      [] code = "FLIGHT_ARRIVED" -> "ARRIVED"
      [] code = "CUSTOMS_CLEARANCE" -> "CUSTOMS_CLEARANCE"
      [] code = "CUSTOMS_CLEARED" -> "CUSTOMS_CLEARANCE"
      [] code = "OUT_FOR_DELIVERY" -> "OUT_FOR_DELIVERY"
      [] code = "DELIVERED" -> "DELIVERED"
      [] code = "CANCELLED" -> "CANCELLED"
      [] OTHER -> NULL

\* The statusMapping table of updateShipmentStatus; NULL where it has no key.
statusMapping(code) ==
    CASE code = "SHIPMENT_CREATED" -> "CREATED"
      [] code = "CARGO_COLLECTED" -> "BOOKED"
      [] code = "MANIFESTED" -> "MANIFESTED"
      [] code = "FLIGHT_DEPARTED" -> "DEPARTED"
      [] code = "IN_TRANSIT" -> "IN_TRANSIT"
      [] code = "FLIGHT_ARRIVED" -> "ARRIVED"
      [] code = "CUSTOMS_CLEARANCE" -> "CUSTOMS_CLEARANCE"
      [] code = "CUSTOMS_CLEARED" -> "CUSTOMS_CLEARANCE"
      [] code = "OUT_FOR_DELIVERY" -> "OUT_FOR_DELIVERY"
      [] code = "DELIVERED" -> "DELIVERED"
      [] OTHER -> NULL

\* TrackingEvent.updateShipmentStatus: the two UPDATEs on the event's shipment.
\* The fallback this.current_status reads a field a TrackingEvent does not
\* have, so an unmapped code binds NULL.
updateShipmentStatus(shp, ev) ==
    IF ev.is_milestone = 1 \/ ev.event_category = "STATUS_UPDATE"
    THEN LET newStatus == statusMapping(ev.event_code)
             sid == ev.shipment_id
         IN  IF sid \notin DOMAIN shp THEN shp
             ELSE [shp EXCEPT
                     ![sid].current_status = newStatus,
                     ![sid].current_location = ev.event_location,
                     ![sid].last_tracked_at = <<ev.event_datetime>>,
                     ![sid].delivery_date =
                         IF ev.event_code = "DELIVERED"
                         THEN <<ev.event_datetime>> ELSE @]
    ELSE shp

\* TrackingEvent.create: INSERT, then updateShipmentStatus.
create(evs, shp, ev) ==
    [events |-> Append(evs, ev), shipments |-> updateShipmentStatus(shp, ev)]

\* checkDuplicate with the window's bound included (<= 300 s)
checkDuplicate_WindowInclusive(evs, shipmentId, eventCode, eventDatetime, externalEventId) ==
    \E i \in DOMAIN evs :
        /\ evs[i].shipment_id = shipmentId
        /\ evs[i].event_code = eventCode
        /\ Abs(evs[i].event_datetime - eventDatetime) <= DedupWindowSeconds
        /\ (externalEventId # NULL => evs[i].external_event_id = externalEventId)

\* checkDuplicate with the external id always compared, so that a candidate
\* without one matches no row
checkDuplicate_AlwaysCompareId(evs, shipmentId, eventCode, eventDatetime, externalEventId) ==
    \E i \in DOMAIN evs :
        /\ evs[i].shipment_id = shipmentId
        /\ evs[i].event_code = eventCode
        /\ Abs(evs[i].event_datetime - eventDatetime) < DedupWindowSeconds
        /\ externalEventId # NULL
        /\ evs[i].external_event_id = externalEventId

\* TrackingEvent.checkDuplicate: COUNT(*) > 0 over the WHERE clause; the
\* external_event_id condition is added only when the argument is truthy.
checkDuplicate(evs, shipmentId, eventCode, eventDatetime, externalEventId) ==
    \E i \in DOMAIN evs :
        /\ evs[i].shipment_id = shipmentId
        /\ evs[i].event_code = eventCode
        /\ Abs(evs[i].event_datetime - eventDatetime) < DedupWindowSeconds
        /\ (externalEventId # NULL => evs[i].external_event_id = externalEventId)

\* new TrackingEvent({...}) as both entry points fill it.
NewEvent(shipmentId, data, sourceId) ==
    [shipment_id |-> shipmentId,
     event_code |-> data.event_code,
     event_category |->
        IF data.event_category = NULL THEN "STATUS_UPDATE" ELSE data.event_category,
     event_location |-> data.event_location,
     event_datetime |-> data.event_datetime,
     is_milestone |-> data.is_milestone,
     is_exception |-> Field(data, "is_exception", 0),
     is_critical |-> Field(data, "is_critical", 0),
     notification_sent |-> 0,
     external_event_id |-> data.external_event_id,
     source_id |-> sourceId]

\* TrackingEvent.createFromExternal: "duplicate" stands for the thrown error.
createFromExternal(evs, shp, externalData, sourceId, shipmentId) ==
    IF checkDuplicate(evs, shipmentId, externalData.event_code,
                      externalData.event_datetime, externalData.external_event_id)
    THEN [events |-> evs, shipments |-> shp, outcome |-> "duplicate"]
    ELSE LET r == create(evs, shp, NewEvent(shipmentId, externalData, sourceId))
         IN  [events |-> r.events, shipments |-> r.shipments, outcome |-> "created"]

-----------------------------------------------------------------------------
(* Shipment *)

\* new Shipment(data) followed by Shipment.create, which inserts the row and
\* then the SHIPMENT_CREATED event of createInitialTrackingEvent.
InitialEvent(sid, t) ==
    [shipment_id |-> sid,
     event_code |-> "SHIPMENT_CREATED",
     event_category |-> "STATUS_UPDATE",
     event_location |-> Origin(sid),
     event_datetime |-> t,
     is_milestone |-> 1,
     is_exception |-> 0,
     is_critical |-> 0,
     notification_sent |-> 0,
     external_event_id |-> NULL,
     source_id |-> NULL]

NewShipment(sid, enabled) ==
    [customer_id |-> Owner(sid),
     current_status |-> "CREATED",
     current_location |-> NULL,
     delivery_date |-> NoTime,
     tracking_enabled |-> enabled,
     tracking_frequency_minutes |-> DefaultFrequencyMinutes,
     last_tracked_at |-> NoTime]

\* Shipment.updateStatus
updateStatus(shp, sid, status, location) ==
    [shp EXCEPT ![sid].current_status = status, ![sid].current_location = location]

\* Shipment.delete that also clears the shipment's location
delete_ClearsLocation(shp, sid) ==
    [shp EXCEPT ![sid].current_status = "CANCELLED", ![sid].current_location = NULL]

\* Shipment.delete
delete(shp, sid) ==
    [shp EXCEPT ![sid].current_status = "CANCELLED"]

\* Shipment.updateTrackingConfig: the UPDATE names tracking_enabled and
\* tracking_frequency_minutes only; config.last_tracked_at is not read.
updateTrackingConfig(shp, sid, config) ==
    [shp EXCEPT ![sid].tracking_enabled = config.tracking_enabled,
                ![sid].tracking_frequency_minutes = config.tracking_frequency_minutes]

-----------------------------------------------------------------------------
(* IATAOneRecordService *)

\* mapEventTypeToCode (the event types the model feeds it; NULL = no key)
mapEventTypeToCode(eventType) ==
    CASE eventType = "Acceptance" -> "CARGO_COLLECTED"
      [] eventType = "Departure" -> "FLIGHT_DEPARTED"
      [] eventType = "Arrival" -> "FLIGHT_ARRIVED"
      [] eventType = "Delivery" -> "DELIVERED"
      [] eventType = "CustomsDeclaration" -> "CUSTOMS_CLEARANCE"
      [] eventType = "CustomsRelease" -> "CUSTOMS_CLEARED"
      [] eventType = "Loading" -> "MANIFESTED"
      [] eventType = "Unloading" -> "ARRIVED"
      [] eventType = "Transfer" -> "IN_TRANSIT"
      [] eventType = "Storage" -> "ARRIVED_WAREHOUSE"
      [] eventType \in {"Discrepancy", "Damage", "Delay"} -> "EXCEPTION"
      [] eventType = "LogisticsEvent" -> "STATUS_UPDATE"
      [] OTHER -> NULL

\* mapEventCategory
mapEventCategory(eventCode) ==
    CASE eventCode \in {"CARGO_COLLECTED", "PICKUP_SCHEDULED"} -> "PICKUP"
      [] eventCode \in {"FLIGHT_DEPARTED", "MANIFESTED"} -> "DEPARTURE"
      [] eventCode = "IN_TRANSIT" -> "TRANSIT"
      [] eventCode \in {"FLIGHT_ARRIVED", "ARRIVED"} -> "ARRIVAL"
      [] eventCode \in {"CUSTOMS_CLEARANCE", "CUSTOMS_CLEARED"} -> "CUSTOMS"
      [] eventCode = "DELIVERED" -> "DELIVERY"
      [] eventCode = "EXCEPTION" -> "EXCEPTION"
      [] OTHER -> "STATUS_UPDATE"

\* isMilestoneEvent
isMilestoneEvent(eventCode) ==
    IF eventCode \in {"CARGO_COLLECTED", "MANIFESTED", "FLIGHT_DEPARTED",
                      "FLIGHT_ARRIVED", "CUSTOMS_CLEARED", "DELIVERED"}
    THEN 1 ELSE 0

\* isExceptionEvent: by the event's type, its exception indicators or its
\* status
isExceptionEvent(event) ==
    IF \/ event.eventType \in {"Discrepancy", "Damage", "Delay"}
       \/ Field(event, "isException", FALSE)
       \/ Field(event, "status", NULL) \in {"EXCEPTION", "ERROR"}
    THEN 1 ELSE 0

\* String.prototype.toUpperCase on the severities the model feeds
toUpperCase(str) ==
    CASE str = "low" -> "LOW"
      [] str = "warning" -> "WARNING"
      [] str = "critical" -> "CRITICAL"
      [] OTHER -> str

\* determineSeverityLevel: the upstream severity in upper case when the event
\* carries one
determineSeverityLevel(event) ==
    IF Field(event, "severity", NULL) # NULL THEN toUpperCase(event.severity)
    ELSE IF isExceptionEvent(event) = 1 THEN "WARNING"
    ELSE IF Field(event, "critical", FALSE) THEN "CRITICAL"
    ELSE "INFO"

\* mapOneRecordEventToTracking: <<>> when the event is dropped (unknown type,
\* no valid time), else the one canonical event.
mapOneRecordEventToTracking(oneRecordEvent) ==
    LET eventCode == mapEventTypeToCode(oneRecordEvent.eventType)
    IN  IF eventCode = NULL \/ oneRecordEvent.eventDateTime = NoTime
        THEN <<>>
        ELSE << [event_code |-> eventCode,
                 event_category |-> mapEventCategory(eventCode),
                 event_location |-> oneRecordEvent.location,
                 event_datetime |-> oneRecordEvent.eventDateTime[1],
                 is_milestone |-> isMilestoneEvent(eventCode),
                 external_event_id |-> oneRecordEvent.id] >>

RECURSIVE MapKept(_)
MapKept(raw) ==
    IF raw = <<>> THEN <<>>
    ELSE mapOneRecordEventToTracking(Head(raw)) \o MapKept(Tail(raw))

\* Array.prototype.sort by event_datetime (stable): insertion sort
RECURSIVE InsertByTime(_, _)
InsertByTime(sorted, e) ==
    IF sorted = <<>> THEN <<e>>
    ELSE IF e.event_datetime < Head(sorted).event_datetime
         THEN <<e>> \o sorted
         ELSE <<Head(sorted)>> \o InsertByTime(Tail(sorted), e)

RECURSIVE SortByTime(_, _)
SortByTime(done, rest) ==
    IF rest = <<>> THEN done
    ELSE SortByTime(InsertByTime(done, Head(rest)), Tail(rest))

\* extractTrackingEvents
extractTrackingEvents(raw) == SortByTime(<<>>, MapKept(raw))

\* getTrackingData: the upstream response is a list of events or "error";
\* the catch block turns a failed request into an empty list.
getTrackingData(response) ==
    IF response.ok THEN extractTrackingEvents(response.events) ELSE <<>>

-----------------------------------------------------------------------------
(* TrackingService *)

getSourceId(sourceType) ==
    CASE sourceType = "IATA_ONERECORD" -> "src-iata"
      [] sourceType = "AIRLINE" -> "src-airline"
      [] sourceType = "CUSTOMS" -> "src-customs"
      [] OTHER -> "src-manual"

\* What may go wrong in a handler: the db.execute that throws (none, the INSERT
\* of the event, the UPDATE of the status, the UPDATE of delivery_date, the
\* SELECT of the subscriptions, the UPDATE of notification_sent), and the
\* subscriptions whose delivery throws.  A db.execute that throws has written
\* nothing; one that returns has written its statement.
NoFaults == [store |-> "none", undelivered |-> {}]

\* TrackingEvent.create when a db.execute may throw: the INSERT stands once it
\* returned (commit and rollback do nothing), and so does the first UPDATE of
\* updateShipmentStatus when the second throws.  ok = FALSE is the error thrown.
createWith(evs, shp, ev, fault) ==
    LET updates == ev.is_milestone = 1 \/ ev.event_category = "STATUS_UPDATE"
        sid == ev.shipment_id
        full == updateShipmentStatus(shp, ev)
    IN  CASE fault = "insert" ->
                [events |-> evs, shipments |-> shp, ok |-> FALSE]
          [] fault = "status" /\ updates ->
                [events |-> Append(evs, ev), shipments |-> shp, ok |-> FALSE]
          [] fault = "delivery" /\ updates /\ ev.event_code = "DELIVERED" ->
                [events |-> Append(evs, ev),
                 shipments |-> [full EXCEPT ![sid].delivery_date = shp[sid].delivery_date],
                 ok |-> FALSE]
          [] OTHER ->
                [events |-> create(evs, shp, ev).events,
                 shipments |-> create(evs, shp, ev).shipments, ok |-> TRUE]

\* TrackingEvent.markNotificationSent
markNotificationSent(evs, i) == [evs EXCEPT ![i].notification_sent = 1]

\* The WHERE clause of sendTrackingNotifications
SubscriptionSelected(sub, shipmentId, ev) ==
    /\ sub.shipment_id = shipmentId
    /\ sub.is_active = 1
    /\ \/ sub.milestone_notifications = 1 /\ ev.is_milestone = 1
       \/ sub.exception_notifications = 1 /\ ev.is_exception = 1
       \/ sub.all_events = 1

\* sendTrackingNotifications that lets the error of a delivery escape
sendTrackingNotifications_Rethrow(evs, subs, i, shipmentId, faults) ==
    LET selected == {j \in DOMAIN subs : SubscriptionSelected(subs[j], shipmentId, evs[i])}
        calls == {[event |-> i, subscription |-> j, ok |-> j \notin faults.undelivered] :
                     j \in selected}
    IN  IF faults.store = "query" \/ selected \cap faults.undelivered # {}
        THEN [events |-> evs, dispatched |-> {}, threw |-> TRUE]
        ELSE [events |-> IF faults.store = "mark" THEN evs ELSE markNotificationSent(evs, i),
              dispatched |-> calls, threw |-> faults.store = "mark"]

\* TrackingService.sendTrackingNotifications for the event in row i: one call
\* of the notification service per selected subscription, each in its own
\* try/catch, then markNotificationSent; the outer try/catch swallows the
\* errors of the SELECT and of the UPDATE, so nothing is thrown.
sendTrackingNotifications(evs, subs, i, shipmentId, faults) ==
    LET selected == {j \in DOMAIN subs : SubscriptionSelected(subs[j], shipmentId, evs[i])}
        calls == {[event |-> i, subscription |-> j, ok |-> j \notin faults.undelivered] :
                     j \in selected}
    IN  IF faults.store = "query"
        THEN [events |-> evs, dispatched |-> {}, threw |-> FALSE]
        ELSE [events |-> IF faults.store = "mark" THEN evs ELSE markNotificationSent(evs, i),
              dispatched |-> calls, threw |-> FALSE]

\* TrackingService.createTrackingEvent: "rejected" and "duplicate" stand for
\* the two errors it throws before anything is written, "failed" for the
\* error of TrackingEvent.create or of sendTrackingNotifications.
createTrackingEventWith(evs, shp, subs, shipmentId, eventData, sourceId, faults) ==
    IF shipmentId \notin DOMAIN shp
    THEN [events |-> evs, shipments |-> shp, outcome |-> "rejected", dispatched |-> {}]
    ELSE IF checkDuplicate(evs, shipmentId, eventData.event_code,
                           eventData.event_datetime, eventData.external_event_id)
    THEN [events |-> evs, shipments |-> shp, outcome |-> "duplicate", dispatched |-> {}]
    ELSE LET ev == NewEvent(shipmentId, eventData, sourceId)
             c == createWith(evs, shp, ev, faults.store)
             n == sendTrackingNotifications(c.events, subs, Len(c.events),
                                            shipmentId, faults)
         IN  IF ~c.ok
             THEN [events |-> c.events, shipments |-> c.shipments,
                   outcome |-> "failed", dispatched |-> {}]
             ELSE IF ev.is_milestone = 1 \/ ev.is_exception = 1 \/ ev.is_critical = 1
             THEN [events |-> n.events, shipments |-> c.shipments,
                   outcome |-> IF n.threw THEN "failed" ELSE "created",
                   dispatched |-> n.dispatched]
             ELSE [events |-> c.events, shipments |-> c.shipments,
                   outcome |-> "created", dispatched |-> {}]

\* createTrackingEvent when no db.execute throws: what it leaves in the two
\* tables does not depend on the subscriptions.
createTrackingEvent(evs, shp, shipmentId, eventData, sourceId) ==
    LET r == createTrackingEventWith(evs, shp, <<>>, shipmentId, eventData,
                                     sourceId, NoFaults)
    IN  [events |-> r.events, shipments |-> r.shipments, outcome |-> r.outcome]

\* The loop of updateTrackingFromExternal over the fetched events: a failed
\* createFromExternal is logged and the loop goes on.
RECURSIVE ApplyFetched(_, _, _, _, _)
ApplyFetched(evs, shp, trackingData, sourceId, shipmentId) ==
    IF trackingData = <<>>
    THEN [events |-> evs, shipments |-> shp, created |-> 0]
    ELSE LET r == createFromExternal(evs, shp, Head(trackingData), sourceId, shipmentId)
             rest == ApplyFetched(r.events, r.shipments, Tail(trackingData),
                                  sourceId, shipmentId)
         IN  [events |-> rest.events, shipments |-> rest.shipments,
              created |-> rest.created + (IF r.outcome = "created" THEN 1 ELSE 0)]

\* updateTrackingFromExternal without the check of tracking_enabled
updateTrackingFromExternal_NoEnabledCheck(evs, shp, shipmentId, sourceType, response) ==
    IF shipmentId \notin DOMAIN shp
    THEN [events |-> evs, shipments |-> shp, outcome |-> "rejected",
          created |-> 0, fetched |-> FALSE]
    ELSE LET trackingData ==
                 IF sourceType = "IATA_ONERECORD"
                 THEN getTrackingData(response) ELSE <<>>
             r == ApplyFetched(evs, shp, trackingData, getSourceId(sourceType),
                               shipmentId)
             stale == shp[shipmentId]
         IN  [events |-> r.events,
              shipments |-> updateTrackingConfig(r.shipments, shipmentId,
                  [tracking_enabled |-> stale.tracking_enabled,
                   tracking_frequency_minutes |-> stale.tracking_frequency_minutes,
                   last_tracked_at |-> <<now>>]),
              outcome |-> "ok", created |-> r.created, fetched |-> TRUE]

\* TrackingService.updateTrackingFromExternal for the shipment with the given
\* AWB (the model names a shipment's AWB by its id).
updateTrackingFromExternal(evs, shp, shipmentId, sourceType, response) ==
    IF shipmentId \notin DOMAIN shp
    THEN [events |-> evs, shipments |-> shp, outcome |-> "rejected",
          created |-> 0, fetched |-> FALSE]
    ELSE IF shp[shipmentId].tracking_enabled = 0
    THEN [events |-> evs, shipments |-> shp, outcome |-> "disabled",
          created |-> 0, fetched |-> FALSE]
    ELSE LET trackingData ==
                 IF sourceType = "IATA_ONERECORD"
                 THEN getTrackingData(response) ELSE <<>>
             r == ApplyFetched(evs, shp, trackingData, getSourceId(sourceType),
                               shipmentId)
             stale == shp[shipmentId]
         IN  [events |-> r.events,
              shipments |-> updateTrackingConfig(r.shipments, shipmentId,
                  [tracking_enabled |-> stale.tracking_enabled,
                   tracking_frequency_minutes |-> stale.tracking_frequency_minutes,
                   last_tracked_at |-> <<now>>]),
              outcome |-> "ok", created |-> r.created, fetched |-> TRUE]

\* TrackingEvent.createFromExternal when a db.execute of event.create() may
\* throw: "failed" stands for the error create() throws, whatever it wrote
\* before.
createFromExternalWith(evs, shp, externalData, sourceId, shipmentId, fault) ==
    IF checkDuplicate(evs, shipmentId, externalData.event_code,
                      externalData.event_datetime, externalData.external_event_id)
    THEN [events |-> evs, shipments |-> shp, outcome |-> "duplicate"]
    ELSE LET c == createWith(evs, shp, NewEvent(shipmentId, externalData, sourceId), fault)
         IN  [events |-> c.events, shipments |-> c.shipments,
              outcome |-> IF c.ok THEN "created" ELSE "failed"]

\* The loop of updateTrackingFromExternal when store writes may fail: faults
\* gives the fault of each fetched event; createdEvents.push is reached only
\* when createFromExternal returned.
RECURSIVE ApplyFetchedWith(_, _, _, _, _, _)
ApplyFetchedWith(evs, shp, trackingData, sourceId, shipmentId, faults) ==
    IF trackingData = <<>>
    THEN [events |-> evs, shipments |-> shp, created |-> 0]
    ELSE LET r == createFromExternalWith(evs, shp, Head(trackingData), sourceId,
                                         shipmentId, Head(faults))
             rest == ApplyFetchedWith(r.events, r.shipments, Tail(trackingData),
                                      sourceId, shipmentId, Tail(faults))
         IN  [events |-> rest.events, shipments |-> rest.shipments,
              created |-> rest.created + (IF r.outcome = "created" THEN 1 ELSE 0)]

\* TrackingService.updateTrackingFromExternal of an existing shipment with
\* tracking enabled from the industry feed, when store writes may fail.
updateTrackingFromExternalWith(evs, shp, shipmentId, response, faults) ==
    LET trackingData == getTrackingData(response)
        r == ApplyFetchedWith(evs, shp, trackingData, getSourceId("IATA_ONERECORD"),
                              shipmentId, faults)
    IN  [events |-> r.events,
         shipments |-> updateTrackingConfig(r.shipments, shipmentId,
             [tracking_enabled |-> shp[shipmentId].tracking_enabled,
              tracking_frequency_minutes |-> shp[shipmentId].tracking_frequency_minutes,
              last_tracked_at |-> <<now>>]),
         outcome |-> "ok", created |-> r.created, fetched |-> TRUE]

\* IsDue without the CANCELLED exclusion (as processPeriodicUpdates filters)
IsDue_OnlyDelivered(row, t) ==
    /\ row.tracking_enabled = 1
    /\ row.current_status # NULL
    /\ row.current_status # "DELIVERED"
    /\ \/ row.last_tracked_at = NoTime
       \/ row.last_tracked_at[1] < t - row.tracking_frequency_minutes * 60

\* The rows the query of getShipmentsForUpdate keeps.  A NULL current_status
\* makes NOT IN unknown, and the row is not kept.
IsDue(row, t) ==
    /\ row.tracking_enabled = 1
    /\ row.current_status # NULL
    /\ row.current_status \notin {"DELIVERED", "CANCELLED"}
    /\ \/ row.last_tracked_at = NoTime
       \/ row.last_tracked_at[1] < t - row.tracking_frequency_minutes * 60

\* ORDER BY last_tracked_at ASC NULLS FIRST
TrackedBefore(a, b) ==
    \/ a.last_tracked_at = NoTime
    \/ b.last_tracked_at # NoTime /\ a.last_tracked_at[1] <= b.last_tracked_at[1]

Take(s, n) == IF Len(s) <= n THEN s ELSE SubSeq(s, 1, n)

\* The rows of the query of getShipmentsForUpdate before FETCH FIRST, in every
\* order the database may return them (rows with equal last_tracked_at come
\* in an order it chooses).
DueOrders(shp, t) ==
    LET due == {sid \in DOMAIN shp : IsDue(shp[sid], t)}
        n == Cardinality(due)
    IN  {o \in [1..n -> due] :
            /\ \A i, j \in 1..n : i # j => o[i] # o[j]
            /\ \A i, j \in 1..n :
                   i < j => TrackedBefore(shp[o[i]], shp[o[j]])}

\* TrackingService.getShipmentsForUpdate: every result the query may return.
getShipmentsForUpdate(shp, t) ==
    {Take(o, BatchLimit) : o \in DueOrders(shp, t)}

\* getShipmentsForUpdate with the batch bound scaled to the fleet model, so
\* that more shipments can be due than one batch holds
getShipmentsForFleetUpdate(shp, t) ==
    {Take(o, FleetBatchLimit) : o \in DueOrders(shp, t)}

\* The loop of processAutomaticUpdates and of processPeriodicUpdates over the
\* shipments to refresh; responses gives each shipment's upstream response.
RECURSIVE UpdateEach(_, _, _, _)
UpdateEach(evs, shp, sids, responses) ==
    IF sids = <<>>
    THEN [events |-> evs, shipments |-> shp, created |-> 0, fetched |-> {}]
    ELSE LET sid == Head(sids)
             r == updateTrackingFromExternal(evs, shp, sid, "IATA_ONERECORD",
                                             responses[sid])
             rest == UpdateEach(r.events, r.shipments, Tail(sids), responses)
         IN  [events |-> rest.events, shipments |-> rest.shipments,
              created |-> r.created + rest.created,
              fetched |-> (IF r.fetched THEN {sid} ELSE {}) \cup rest.fetched]

-----------------------------------------------------------------------------
(* Inputs *)

\* Bodies of POST /tracking/events.  An absent event_category is NULL, which
\* the controller and the service default to STATUS_UPDATE.  LOCATION_UPDATE
\* is a code statusMapping does not know; IN_TRANSIT comes as a location
\* update, the other codes as status updates.
ManualInputs ==
    {m \in [event_code : {"CARGO_COLLECTED", "DELIVERED", "LOCATION_UPDATE",
                          "IN_TRANSIT"},
            event_category : {NULL, "LOCATION_UPDATE"},
            event_location : {"HKG"},
            event_datetime : {600, 899, 900},
            is_milestone : {0},
            external_event_id : {NULL, "x1"}] :
        m.event_category = "LOCATION_UPDATE" <=> m.event_code = "IN_TRANSIT"}

\* Upstream events of the industry feed; "Bogus" is a type the adapter does
\* not know, and one event comes without an upstream id.
FeedEvents ==
    {[eventType |-> "Acceptance", eventDateTime |-> <<600>>,
      location |-> "HKG", id |-> NULL],
     [eventType |-> "Bogus", eventDateTime |-> <<900>>,
      location |-> "HKG", id |-> "x2"]}
    \cup [eventType : {"Delivery", "Transfer", "Storage"},
          eventDateTime : {<<900>>},
          location : {"HKG"},
          id : {"x2"}]
    \cup [eventType : {"Acceptance"},
          eventDateTime : {<<600>>, <<900>>},
          location : {"HKG"},
          id : {"x2"}]

SeqsUpTo(S, n) == UNION {[1..k -> S] : k \in 0..n}

Responses(E) ==
    {[ok |-> FALSE, events |-> <<>>]}
    \cup {[ok |-> TRUE, events |-> b] : b \in SeqsUpTo(E, MaxBatch)}

\* The inputs of the scheduler's specification
PollInputs ==
    {m \in ManualInputs :
        /\ m.event_category = NULL /\ m.external_event_id = NULL
        /\ \/ m.event_code = "DELIVERED" /\ m.event_datetime = 900
           \/ m.event_code = "CARGO_COLLECTED" /\ m.event_datetime = 600}

PollFeedEvents ==
    {e \in FeedEvents : e.eventType \in {"Delivery", "Storage"}}

PollCustomers == {"c1"}

PollRooms == {"s1"}

\* Bodies of POST /tracking/events with the flags the notifications look at:
\* a DELIVERED milestone, and a LOCATION_UPDATE with and without the
\* exception flag.
NotifyInputs ==
    {m \in [event_code : {"DELIVERED", "LOCATION_UPDATE"},
            event_category : {NULL, "LOCATION_UPDATE"},
            event_location : {"HKG"},
            event_datetime : {600, 900},
            is_milestone : {0, 1},
            is_exception : {0, 1},
            external_event_id : {NULL}] :
        /\ m.event_category = "LOCATION_UPDATE" <=> m.event_code = "LOCATION_UPDATE"
        /\ m.event_datetime = 900 <=> m.event_code = "DELIVERED"
        /\ m.is_milestone = 1 <=> m.event_code = "DELIVERED"
        /\ m.is_exception = 1 => m.event_code = "LOCATION_UPDATE"}

\* The DELIVERED milestone and two bodies with the event code CANCELLED, as a
\* status update and as a milestone
LogInputs ==
    {m \in NotifyInputs : m.event_code = "DELIVERED"}
    \cup [event_code : {"CANCELLED"},
          event_category : {NULL},
          event_location : {"HKG"},
          event_datetime : {600},
          is_milestone : {0, 1},
          is_exception : {0},
          external_event_id : {NULL}]

\* The faults of one request: at most one db.execute throws, and any of the
\* deliveries may (none is attempted when a statement before them threw)
NotifyFaults ==
    {f \in [store : {"none", "insert", "status", "delivery", "query", "mark"},
            undelivered : SUBSET (1..MaxSubs)] :
        f.store \notin {"none", "mark"} => f.undelivered = {}}

\* A request where nothing fails, one whose INSERT throws and one whose
\* UPDATE of notification_sent throws
LogFaults ==
    {f \in NotifyFaults : f.store \in {"none", "insert", "mark"} /\ f.undelivered = {}}

\* Bodies of POST /tracking/subscribe: the defaults, milestones only,
\* location updates only, all events
NotifySettings ==
    {[milestone_notifications |-> 1, exception_notifications |-> 1,
      location_updates |-> 0, all_events |-> 0],
     [milestone_notifications |-> 1, exception_notifications |-> 0,
      location_updates |-> 0, all_events |-> 0],
     [milestone_notifications |-> 0, exception_notifications |-> 0,
      location_updates |-> 1, all_events |-> 0],
     [milestone_notifications |-> 0, exception_notifications |-> 0,
      location_updates |-> 0, all_events |-> 1]}

\* Bodies of POST /tracking/events with and without event_location (the body's
\* validation asks for event_code only): two status updates and a location
\* update
LocationInputs ==
    {m \in [event_code : {"CARGO_COLLECTED", "DELIVERED", "LOCATION_UPDATE"},
            event_category : {NULL, "LOCATION_UPDATE"},
            event_location : {"HKG", NULL},
            event_datetime : {600, 900},
            is_milestone : {0},
            external_event_id : {NULL}] :
        m.event_category = "LOCATION_UPDATE" <=> m.event_code = "LOCATION_UPDATE"}

\* Upstream events with and without a location name
LocationFeedEvents ==
    [eventType : {"Departure"},
     eventDateTime : {<<1200>>},
     location : {"NRT", NULL},
     id : {"x3"}]

\* Upstream events of a refresh whose store writes may fail, and the
\* db.execute of event.create() that throws for each fetched event (none,
\* the INSERT, the UPDATE of the status)
FaultFeedEvents ==
    {e \in FeedEvents : e.id = "x2" /\ e.eventType \in {"Acceptance", "Transfer"}}

StoreFaults == [1..MaxBatch -> {"none", "insert", "status"}]

\* Upstream events as the adapter may be handed them: known and unknown
\* types, with and without a valid time, with and without a severity
AdapterFeedEvents ==
    [eventType : {"Acceptance", "LogisticsEvent", "Bogus"},
     eventDateTime : {<<600>>, <<1200>>, NoTime},
     location : {"HKG"},
     id : {"x2"},
     severity : {NULL, "low", "critical"}]

NotifyFeedEvents ==
    {e \in FeedEvents : e.eventType \in {"Delivery", "Transfer"}}

NotifyCustomers == {"c1"}

NotifyRows == Cardinality(ShipmentIds) + MaxNotified

MaxRows == Cardinality(ShipmentIds) + MaxEvents

\* What a delivery attempt of the dispatcher may come to
DeliveryOutcomes == {"ok", "transient", "permanent"}

NoResult ==
    [op |-> "none", shipment_id |-> NULL, outcome |-> NULL, created |-> 0,
     fetched |-> {}, at |-> 0]

-----------------------------------------------------------------------------
(* Initial state: both shipments created at time 0 by Shipment.create, s1 with
   tracking enabled (the default) and s2 with tracking disabled *)

CreatedAtStart(enabled) ==
    LET s0 == [sid \in ShipmentIds |-> NewShipment(sid, enabled[sid])]
        r1 == create(<<>>, s0, InitialEvent("s1", 0))
    IN  create(r1.events, r1.shipments, InitialEvent("s2", 0))

\* The limit of reconnect attempts the constructor of the push client sets
maxReconnectAttempts == 5

\* The push client after its constructor: no socket, both flags false, no
\* attempt counted, the base delay of 1000 ms, no subscription. socket is
\* "none" for this.socket = null, else the state of the socket.io socket
\* this.socket refers to ("idle": created or closed, "opening", "connected").
\* timers, emitted, scheduled and threw are not fields of the object: the
\* timers handleReconnect has set and that have not fired, the names the
\* last call or handler of the client passed to this.emit, the attempts
\* scheduled since the last 'connect' event, and whether a timer callback
\* has raised a TypeError.
NewClient ==
    [socket |-> "none", isConnected |-> FALSE, isAuthenticated |-> FALSE,
     reconnectAttempts |-> 0, reconnectDelay |-> 1000, subscriptions |-> {},
     timers |-> <<>>, emitted |-> <<>>, scheduled |-> 0, threw |-> FALSE]

InitWith(enabled) ==
    /\ LET r == CreatedAtStart(enabled)
       IN  events = r.events /\ shipments = r.shipments
    /\ now = 0
    /\ connectedClients = [k \in {} |-> 0]
    /\ roomSubscriptions = [k \in {} |-> {}]
    /\ result = NoResult
    /\ subscriptions = <<>>
    /\ published = {}
    /\ dispatched = {}
    /\ jobs = <<>>
    /\ inflight = {}
    /\ server = [phase |-> "up", periodic |-> "idle", active |-> <<>>, notified |-> {}]
    /\ pending = {}
    /\ client = NewClient

Init == InitWith([sid \in ShipmentIds |-> IF sid = "s1" THEN 1 ELSE 0])

\* Both shipments created with tracking enabled
InitFleet == InitWith([sid \in ShipmentIds |-> 1])

-----------------------------------------------------------------------------
(* Operations *)

\* POST /tracking/events -> TrackingService.createTrackingEvent, with one of
\* the given faults
ManualApplyWith(Inputs, Faults) ==
    \E sid \in AllIds, data \in Inputs, faults \in Faults :
        \E r \in {createTrackingEventWith(events, shipments, subscriptions, sid,
                                          data, "src-manual", faults)} :
            /\ Len(r.events) <= MaxRows
            /\ events' = r.events
            /\ shipments' = r.shipments
            /\ dispatched' = dispatched \cup r.dispatched
            /\ result' = [op |-> "createTrackingEvent", shipment_id |-> sid,
                          outcome |-> r.outcome,
                          created |-> Len(r.events) - Len(events),
                          fetched |-> {}, at |-> 0]
            /\ UNCHANGED <<now, connectedClients, roomSubscriptions,
                           subscriptions, published, jobs, inflight, server, pending,
                   client>>

\* POST /tracking/events when nothing fails
ManualApply(Inputs) == ManualApplyWith(Inputs, {NoFaults})

\* TrackingService.subscribeToTracking: the row it inserts, or nothing when it
\* throws 'Shipment not found or access denied'.
subscribeToTracking(subs, shp, shipmentId, customerId, notificationSettings) ==
    IF shipmentId \notin DOMAIN shp \/ shp[shipmentId].customer_id # customerId
    THEN [subscriptions |-> subs, outcome |-> "rejected"]
    ELSE [subscriptions |->
              Append(subs, [shipment_id |-> shipmentId, customer_id |-> customerId,
                            milestone_notifications |->
                                notificationSettings.milestone_notifications,
                            exception_notifications |->
                                notificationSettings.exception_notifications,
                            location_updates |-> notificationSettings.location_updates,
                            all_events |-> notificationSettings.all_events,
                            is_active |-> 1]),
          outcome |-> "subscribed"]

\* POST /tracking/subscribe -> TrackingService.subscribeToTracking
SubscribeToTracking(CustomerIds, Settings) ==
    \E sid \in AllIds, customerId \in CustomerIds, settings \in Settings :
        LET r == subscribeToTracking(subscriptions, shipments, sid, customerId, settings)
        IN  /\ Len(r.subscriptions) <= MaxSubs
            /\ subscriptions' = r.subscriptions
            /\ result' = [NoResult EXCEPT !.op = "subscribeToTracking",
                                          !.shipment_id = sid, !.outcome = r.outcome]
            /\ UNCHANGED <<events, shipments, now, connectedClients,
                           roomSubscriptions, published, dispatched, jobs, inflight, server, pending,
                   client>>

\* POST /tracking/update/{awb} -> TrackingService.updateTrackingFromExternal
ForceRefresh(E) ==
    \E sid \in AllIds, sourceType \in {"IATA_ONERECORD", "AIRLINE"},
       response \in Responses(E) :
        \* no request goes upstream for the airline stub or an ineligible shipment
        /\ (sourceType = "AIRLINE" \/ sid \notin DOMAIN shipments
              \/ shipments[sid].tracking_enabled = 0) => ~response.ok
        /\ \E r \in {updateTrackingFromExternal(events, shipments, sid, sourceType,
                                                 response)} :
            /\ Len(r.events) <= MaxRows
            /\ events' = r.events
            /\ shipments' = r.shipments
            /\ result' = [op |-> "updateTrackingFromExternal", shipment_id |-> sid,
                          outcome |-> r.outcome, created |-> r.created,
                          fetched |-> IF r.fetched THEN {sid} ELSE {}, at |-> 0]
            /\ UNCHANGED <<now, connectedClients, roomSubscriptions,
                           subscriptions, published, dispatched, jobs, inflight, server, pending,
                   client>>

\* POST /tracking/update/{awb} for a shipment with tracking enabled, with
\* store writes that may fail
FaultyRefresh(E) ==
    \E sid \in ShipmentIds, response \in Responses(E), faults \in StoreFaults :
        /\ shipments[sid].tracking_enabled # 0
        /\ \E r \in {updateTrackingFromExternalWith(events, shipments, sid, response,
                                                     faults)} :
            /\ Len(r.events) <= MaxRows
            /\ events' = r.events
            /\ shipments' = r.shipments
            /\ result' = [op |-> "updateTrackingFromExternal", shipment_id |-> sid,
                          outcome |-> r.outcome, created |-> r.created,
                          fetched |-> {sid}, at |-> 0]
            /\ UNCHANGED <<now, connectedClients, roomSubscriptions,
                           subscriptions, published, dispatched, jobs, inflight,
                           server, pending, client>>

\* Shipment.updateStatus by an administrator
AdminUpdateStatus ==
    \E sid \in ShipmentIds, status \in {"ON_HOLD", "CANCELLED"} :
        /\ shipments' = updateStatus(shipments, sid, status, NULL)
        /\ result' = [NoResult EXCEPT !.op = "updateStatus", !.shipment_id = sid,
                                      !.outcome = "ok"]
        /\ UNCHANGED <<events, now, connectedClients, roomSubscriptions,
                       subscriptions, published, dispatched, jobs, inflight, server, pending,
                   client>>

\* Shipment.delete
AdminDelete ==
    \E sid \in ShipmentIds :
        /\ shipments' = delete(shipments, sid)
        /\ result' = [NoResult EXCEPT !.op = "delete", !.shipment_id = sid,
                                      !.outcome = "ok"]
        /\ UNCHANGED <<events, now, connectedClients, roomSubscriptions,
                       subscriptions, published, dispatched, jobs, inflight, server, pending,
                   client>>

\* The passage of time between two handlers
AdvanceClock ==
    /\ now < MaxClock * 1800
    /\ now' = now + 1800
    /\ UNCHANGED <<events, shipments, connectedClients, roomSubscriptions, result,
                   subscriptions, published, dispatched, jobs, inflight, server, pending,
                   client>>

\* TrackingService.processAutomaticUpdates for one of the given results of
\* getShipmentsForUpdate
AutomaticUpdates(E, selections) ==
    \E sel \in selections :
    \E responses \in [Range(sel) -> Responses(E)] :
        \E r \in {UpdateEach(events, shipments, sel, responses)} :
            /\ Len(r.events) <= MaxRows
            /\ events' = r.events
            /\ shipments' = r.shipments
            /\ result' = [op |-> "processAutomaticUpdates", shipment_id |-> NULL,
                          outcome |-> "ok", created |-> r.created,
                          fetched |-> r.fetched, at |-> now]
            /\ UNCHANGED <<now, connectedClients, roomSubscriptions,
                           subscriptions, published, dispatched, jobs, inflight, server, pending,
                   client>>

\* POST /tracking/process-updates -> TrackingService.processAutomaticUpdates
ProcessAutomaticUpdates(E) ==
    AutomaticUpdates(E, getShipmentsForUpdate(shipments, now))

\* processAutomaticUpdates in the fleet model
ProcessFleetUpdates(E) ==
    AutomaticUpdates(E, getShipmentsForFleetUpdate(shipments, now))

-----------------------------------------------------------------------------
(* Concurrent refreshes *)

\* The requests of POST /tracking/update/{awb} the server handles at a time
Requests == {"r1", "r2"}

\* updateTrackingFromExternal for a response of one upstream event, up to the
\* return of checkDuplicate in createFromExternal.  When nothing is to be
\* created (no shipment, tracking disabled, the event dropped by the adapter
\* or found a duplicate) the handler runs to its end; otherwise the call holds
\* the shipment it loaded and the canonical event, and the INSERT is yet to
\* come.  Nothing but the await separates the SELECT from the INSERT: every
\* db.execute takes a connection of its own, and no lock is held.
RefreshCheck(E) ==
    \E request \in Requests, sid \in AllIds, e \in E :
        /\ \A c \in pending : c.request # request
        /\ Cardinality(pending) < MaxPending
        /\ \E r \in {updateTrackingFromExternal(events, shipments, sid, "IATA_ONERECORD",
                                                 [ok |-> TRUE, events |-> <<e>>])} :
              IF r.created = 0
              THEN /\ events' = r.events
                   /\ shipments' = r.shipments
                   /\ result' = [op |-> "updateTrackingFromExternal",
                                 shipment_id |-> sid, outcome |-> r.outcome,
                                 created |-> 0,
                                 fetched |-> IF r.fetched THEN {sid} ELSE {}, at |-> 0]
                   /\ UNCHANGED pending
              ELSE /\ pending' = pending \cup
                          {[request |-> request, shipment_id |-> sid,
                            data |-> mapOneRecordEventToTracking(e)[1],
                            stale |-> shipments[sid]]}
                   /\ UNCHANGED <<events, shipments, result>>
        /\ UNCHANGED <<now, connectedClients, roomSubscriptions, subscriptions,
                       published, dispatched, jobs, inflight, server, client>>

\* The rest of a suspended updateTrackingFromExternal: event.create() (INSERT
\* and updateShipmentStatus), then updateTrackingConfig with the values of
\* the shipment as it was loaded.
RefreshInsert ==
    \E c \in pending :
        \E r \in {create(events, shipments,
                         NewEvent(c.shipment_id, c.data, getSourceId("IATA_ONERECORD")))} :
            /\ Len(r.events) <= MaxRows
            /\ events' = r.events
            /\ shipments' = updateTrackingConfig(r.shipments, c.shipment_id,
                   [tracking_enabled |-> c.stale.tracking_enabled,
                    tracking_frequency_minutes |-> c.stale.tracking_frequency_minutes,
                    last_tracked_at |-> <<now>>])
            /\ result' = [op |-> "updateTrackingFromExternal",
                          shipment_id |-> c.shipment_id, outcome |-> "ok",
                          created |-> 1, fetched |-> {c.shipment_id}, at |-> 0]
            /\ pending' = pending \ {c}
            /\ UNCHANGED <<now, connectedClients, roomSubscriptions, subscriptions,
                           published, dispatched, jobs, inflight, server, client>>

-----------------------------------------------------------------------------
(* RealTimeTrackingService *)

HasKey(f, k) == k \in DOMAIN f

SetKey(f, k, v) == [x \in DOMAIN f \cup {k} |-> IF x = k THEN v ELSE f[x]]

DeleteKey(f, k) == [x \in DOMAIN f \ {k} |-> f[x]]

\* What stays the same in every handler of the hub
StoreUnchanged ==
    UNCHANGED <<events, shipments, now, result, subscriptions, published, dispatched, jobs, inflight, server, pending,
                   client>>

\* io.on('connection'): rooms stands for the socket's rooms (socket.join and
\* socket.leave), lastOn for the last message of the socket that was handled
\* and lastEmit for the last message emitted to it, received for the
\* broadcasts emitted to the rooms of the socket, in the order of the emits,
\* and snapshots for the shipments whose tracking_update was emitted to it.
Connect(Ks) ==
    \E k \in Ks :
        /\ ~HasKey(connectedClients, k)
        /\ connectedClients' = SetKey(connectedClients, k,
               [subscriptions |-> {}, customerId |-> NULL, authenticated |-> FALSE,
                rooms |-> {}, lastOn |-> "connection", lastEmit |-> "connected",
                received |-> <<>>, snapshots |-> {}])
        /\ UNCHANGED roomSubscriptions
        /\ StoreUnchanged

Connection == Connect(Clients)

\* handleAuthentication
HandleAuthentication(CustomerIds) ==
    \E k \in DOMAIN connectedClients, customerId \in CustomerIds :
        /\ connectedClients' = [connectedClients EXCEPT
               ![k].customerId = customerId, ![k].authenticated = TRUE,
               ![k].lastOn = "authenticate", ![k].lastEmit = "authenticated"]
        /\ UNCHANGED roomSubscriptions
        /\ StoreUnchanged

\* roomSubscriptions.get(roomName).delete(socket.id) and the removal of a
\* room left empty
LeaveRoom(rooms, sid, k) ==
    IF HasKey(rooms, sid)
    THEN IF rooms[sid] \ {k} = {} THEN DeleteKey(rooms, sid)
         ELSE [rooms EXCEPT ![sid] = @ \ {k}]
    ELSE rooms

\* handleShipmentSubscription without the check of clientInfo.authenticated
SubscriptionRefused_NoAuthCheck(clientInfo, shp, id, byAwb) ==
    \/ byAwb /\ id \notin DOMAIN shp
    \/ byAwb /\ clientInfo.customerId # NULL
             /\ shp[id].customer_id # clientInfo.customerId

\* The errors handleShipmentSubscription throws before it joins the room; the
\* owner is compared only when the shipment was looked up by its AWB.
SubscriptionRefused(clientInfo, shp, id, byAwb) ==
    \/ ~clientInfo.authenticated
    \/ byAwb /\ id \notin DOMAIN shp
    \/ byAwb /\ clientInfo.customerId # NULL
             /\ shp[id].customer_id # clientInfo.customerId

\* What a read that fails gives: the message of the error thrown
NoTrackingInfo(error) ==
    [outcome |-> error, shipment_id |-> NULL, tracking_events |-> {}]

\* TrackingService.getTrackingByAwb(awbNumber, {customerId}): the shipment and
\* its tracking events, or the error thrown (the AWB of a shipment is named
\* by the shipment's id).
getTrackingByAwb(shp, evs, awbNumber, customerId) ==
    IF awbNumber \notin DOMAIN shp THEN NoTrackingInfo("Shipment not found")
    ELSE IF customerId # NULL /\ shp[awbNumber].customer_id # customerId
    THEN NoTrackingInfo("Access denied")
    ELSE [outcome |-> "ok", shipment_id |-> awbNumber,
          tracking_events |-> {i \in DOMAIN evs : evs[i].shipment_id = awbNumber}]

\* TrackingService.getTrackingById(shipmentId, customerId)
getTrackingById(shp, evs, shipmentId, customerId) ==
    IF shipmentId \notin DOMAIN shp THEN NoTrackingInfo("Shipment not found")
    ELSE IF customerId # NULL /\ shp[shipmentId].customer_id # customerId
    THEN NoTrackingInfo("Access denied")
    ELSE getTrackingByAwb(shp, evs, shipmentId, customerId)

\* TrackingController.getShipmentTrackingEvents for a caller whose
\* req.user.customer_id is user (NULL for a caller of no customer)
getShipmentTrackingEvents(shp, evs, user, shipmentId) ==
    IF shipmentId \notin DOMAIN shp THEN NoTrackingInfo("Shipment not found")
    ELSE IF user # NULL /\ shp[shipmentId].customer_id # user
    THEN NoTrackingInfo("Access denied")
    ELSE [outcome |-> "ok", shipment_id |-> shipmentId,
          tracking_events |-> {i \in DOMAIN evs : evs[i].shipment_id = shipmentId}]

\* TrackingController.getCustomerTrackingHistory and the service's function
\* of that name: the shipments of customerId, each with its events
getCustomerTrackingHistory(shp, evs, user, customerId) ==
    IF user # NULL /\ user # customerId
    THEN [outcome |-> "Access denied", tracking_history |-> {}]
    ELSE [outcome |-> "ok",
          tracking_history |->
              {[shipment_id |-> sid,
                tracking_events |-> {i \in DOMAIN evs : evs[i].shipment_id = sid}] :
                   sid \in {x \in DOMAIN shp : shp[x].customer_id = customerId}}]

\* handleShipmentSubscription; an error thrown before the join leaves the
\* hub as it was, and the socket gets subscription_error. After the join the
\* snapshot of getTrackingById is emitted as tracking_update unless the read
\* throws.
HandleShipmentSubscription(Ids) ==
    \E k \in DOMAIN connectedClients, id \in Ids, byAwb \in BOOLEAN :
        /\ IF SubscriptionRefused(connectedClients[k], shipments, id, byAwb)
           THEN /\ connectedClients' = [connectedClients EXCEPT
                      ![k].lastOn = "subscribe_shipment",
                      ![k].lastEmit = "subscription_error"]
                /\ UNCHANGED roomSubscriptions
           ELSE /\ connectedClients' = [connectedClients EXCEPT
                      ![k].subscriptions = @ \cup {id},
                      ![k].rooms = @ \cup {<<"shipment", id>>},
                      ![k].snapshots =
                          IF getTrackingById(shipments, events, id,
                                 connectedClients[k].customerId).outcome = "ok"
                          THEN @ \cup {id} ELSE @,
                      ![k].lastOn = "subscribe_shipment",
                      ![k].lastEmit = "subscribed"]
                /\ roomSubscriptions' = SetKey(roomSubscriptions, id,
                      (IF HasKey(roomSubscriptions, id)
                       THEN roomSubscriptions[id] ELSE {}) \cup {k})
        /\ StoreUnchanged

\* handleShipmentUnsubscription
HandleShipmentUnsubscription(Ids) ==
    \E k \in DOMAIN connectedClients, id \in Ids :
        /\ connectedClients' = [connectedClients EXCEPT
               ![k].subscriptions = @ \ {id},
               ![k].rooms = @ \ {<<"shipment", id>>},
               ![k].lastOn = "unsubscribe_shipment",
               ![k].lastEmit = "unsubscribed"]
        /\ roomSubscriptions' = LeaveRoom(roomSubscriptions, id, k)
        /\ StoreUnchanged

\* handleCustomerSubscription without the comparison of the customer ids
handleCustomerSubscription_NoAccessCheck(clientInfo, customerId) ==
    IF ~clientInfo.authenticated
    THEN [clientInfo EXCEPT !.lastOn = "subscribe_customer",
                            !.lastEmit = "subscription_error"]
    ELSE [clientInfo EXCEPT !.rooms = @ \cup {<<"customer", customerId>>},
                            !.lastOn = "subscribe_customer",
                            !.lastEmit = "customer_subscribed"]

\* handleCustomerSubscription and its socket.on wrapper: the client's record
\* after subscribe_customer {customerId}
handleCustomerSubscription(clientInfo, customerId) ==
    IF ~clientInfo.authenticated \/ clientInfo.customerId # customerId
    THEN [clientInfo EXCEPT !.lastOn = "subscribe_customer",
                            !.lastEmit = "subscription_error"]
    ELSE [clientInfo EXCEPT !.rooms = @ \cup {<<"customer", customerId>>},
                            !.lastOn = "subscribe_customer",
                            !.lastEmit = "customer_subscribed"]

\* socket.on('subscribe_customer')
HandleCustomerSubscription(CustomerIds) ==
    \E k \in DOMAIN connectedClients, customerId \in CustomerIds :
        /\ connectedClients' = [connectedClients EXCEPT
               ![k] = handleCustomerSubscription(connectedClients[k], customerId)]
        /\ UNCHANGED roomSubscriptions
        /\ StoreUnchanged

RECURSIVE LeaveAll(_, _, _)
LeaveAll(rooms, sids, k) ==
    IF sids = {} THEN rooms
    ELSE LET sid == CHOOSE x \in sids : TRUE
         IN  LeaveAll(LeaveRoom(rooms, sid, k), sids \ {sid}, k)

\* The suspended calls once the records of the sockets Ks have left
\* connectedClients: each call keeps the clientInfo object it read
Orphaned(calls, clients, Ks) ==
    {IF r.socket \in Ks /\ r.clientInfo = <<>>
     THEN [r EXCEPT !.clientInfo = <<clients[r.socket]>>] ELSE r : r \in calls}

\* handleDisconnection
HandleDisconnection ==
    \E k \in DOMAIN connectedClients :
        /\ roomSubscriptions' =
               LeaveAll(roomSubscriptions, connectedClients[k].subscriptions, k)
        /\ connectedClients' = DeleteKey(connectedClients, k)
        /\ inflight' = Orphaned(inflight, connectedClients, {k})
        /\ UNCHANGED <<events, shipments, now, result, subscriptions, published,
                       dispatched, jobs, server, pending, client>>

\* handleShipmentSubscription {awbNumber} up to await Shipment.findByAwb
AwbLookupStart(Ids) ==
    \E k \in DOMAIN connectedClients, awbNumber \in Ids :
        /\ connectedClients[k].authenticated
        /\ inflight' = inflight \cup
               {[socket |-> k, awbNumber |-> awbNumber, clientInfo |-> <<>>]}
        /\ UNCHANGED <<events, shipments, now, connectedClients, roomSubscriptions,
                       result, subscriptions, published, dispatched, jobs, server, pending,
                   client>>

\* handleShipmentSubscription {awbNumber} from the return of
\* Shipment.findByAwb on: the checks, the join and the bookkeeping, made for
\* the socket id and the clientInfo object read before the await, whether or
\* not the socket is still connected.
AwbLookupReturn ==
    \E r \in inflight :
        LET k == r.socket
            live == r.clientInfo = <<>>
            clientInfo == IF live THEN connectedClients[k] ELSE r.clientInfo[1]
            id == r.awbNumber
        IN  /\ inflight' = inflight \ {r}
            /\ IF SubscriptionRefused(clientInfo, shipments, id, TRUE)
               THEN /\ connectedClients' =
                          IF live
                          THEN [connectedClients EXCEPT
                                   ![k].lastOn = "subscribe_shipment",
                                   ![k].lastEmit = "subscription_error"]
                          ELSE connectedClients
                    /\ UNCHANGED roomSubscriptions
               ELSE /\ connectedClients' =
                          IF live
                          THEN [connectedClients EXCEPT
                                   ![k].subscriptions = @ \cup {id},
                                   ![k].rooms = @ \cup {<<"shipment", id>>},
                                   ![k].snapshots =
                                       IF getTrackingById(shipments, events, id,
                                              clientInfo.customerId).outcome = "ok"
                                       THEN @ \cup {id} ELSE @,
                                   ![k].lastOn = "subscribe_shipment",
                                   ![k].lastEmit = "subscribed"]
                          ELSE connectedClients
                    /\ roomSubscriptions' = SetKey(roomSubscriptions, id,
                          (IF HasKey(roomSubscriptions, id)
                           THEN roomSubscriptions[id] ELSE {}) \cup {k})
            /\ UNCHANGED <<events, shipments, now, result, subscriptions, published,
                           dispatched, jobs, server, pending, client>>

\* The shipments processPeriodicUpdates refreshes: those with a subscribed
\* room that exist, have tracking enabled and are not DELIVERED.
PeriodicTargets(rooms, shp) ==
    {sid \in DOMAIN rooms :
        /\ rooms[sid] # {}
        /\ sid \in DOMAIN shp
        /\ shp[sid].tracking_enabled # 0
        /\ shp[sid].current_status # "DELIVERED"}

\* The orders in which the updates of a set of shipments may take effect
Orders(S) ==
    {o \in [1..Cardinality(S) -> S] :
        \A i, j \in 1..Cardinality(S) : i # j => o[i] # o[j]}

\* TrackingEvent.findByShipment(shipmentId, {limit: n}): the results the query
\* ORDER BY event_datetime DESC FETCH NEXT n ROWS may give, as sequences of
\* rows (rows with equal event_datetime come in an order the database chooses).
findByShipment(evs, shipmentId, n) ==
    LET rows == {i \in DOMAIN evs : evs[i].shipment_id = shipmentId}
        m == IF n < Cardinality(rows) THEN n ELSE Cardinality(rows)
    IN  {q \in [1..m -> rows] :
            /\ \A a, b \in 1..m : a < b =>
                   /\ q[a] # q[b]
                   /\ evs[q[a]].event_datetime >= evs[q[b]].event_datetime
            /\ \A a \in 1..m, j \in rows \ Range(q) :
                   evs[q[a]].event_datetime >= evs[j].event_datetime}

\* The events processPeriodicUpdates hands to broadcastTrackingEvent for one
\* shipment: as many of its latest events as the update created.
LatestCreated(before, after, sid) ==
    LET n == Cardinality({i \in DOMAIN after : after[i].shipment_id = sid})
               - Cardinality({i \in DOMAIN before : before[i].shipment_id = sid})
    IN  IF n > 0 THEN findByShipment(after, sid, n) ELSE {<<>>}

\* The events handed to broadcastTrackingEvent for the shipments of order,
\* in the order of the calls
RECURSIVE Broadcast(_, _, _)
Broadcast(before, after, order) ==
    IF order = <<>> THEN {<<>>}
    ELSE {a \o b : a \in LatestCreated(before, after, Head(order)),
                   b \in Broadcast(before, after, Tail(order))}

\* The eventData of broadcastTrackingEvent: the event (by row) and the
\* snapshot taken from the shipment object the caller passed
eventData(i, shipment) ==
    [event |-> i,
     shipment |-> [current_status |-> shipment.current_status,
                   current_location |-> shipment.current_location]]

\* io.to(room).emit(type, data): the message reaches the sockets in the room
emit(clients, room, type, data) ==
    [k \in DOMAIN clients |->
        IF room \in clients[k].rooms
        THEN [clients[k] EXCEPT !.received =
                 Append(@, [type |-> type, event |-> data.event,
                            shipment |-> data.shipment])]
        ELSE clients[k]]

\* broadcastTrackingEvent(trackingEvent, shipment), trackingEvent being row i
\* of evs: the connections after its emits.
broadcastTrackingEvent(clients, evs, i, shipment) ==
    LET roomName == <<"shipment", evs[i].shipment_id>>
        customerRoom == <<"customer", shipment.customer_id>>
        data == eventData(i, shipment)
        toShipment == emit(clients, roomName, "tracking_event", data)
        toCustomer == emit(toShipment, customerRoom, "customer_tracking_update", data)
    IN  IF evs[i].is_critical = 1 \/ evs[i].is_exception = 1 \/ evs[i].is_milestone = 1
        THEN emit(toCustomer, roomName, "critical_update", data)
        ELSE toCustomer

\* for (const event of latestEvents.events) await broadcastTrackingEvent(...)
RECURSIVE BroadcastEach(_, _, _, _)
BroadcastEach(clients, evs, shp, rows) ==
    IF rows = <<>> THEN clients
    ELSE BroadcastEach(
             broadcastTrackingEvent(clients, evs, Head(rows),
                                    shp[evs[Head(rows)].shipment_id]),
             evs, shp, Tail(rows))

\* RealTimeTrackingService.processPeriodicUpdates for the rooms it read when
\* it started; emits tells whether the emits of broadcastTrackingEvent go
\* through or throw (the error is caught and logged there).
PeriodicUpdate(E, rooms) ==
    \E order \in Orders(PeriodicTargets(rooms, shipments)) :
    \E responses \in [Range(order) -> Responses(E)], emits \in BOOLEAN :
        \E r \in {UpdateEach(events, shipments, order, responses)} :
            /\ DOMAIN rooms # {}
            /\ Len(r.events) <= MaxRows
            /\ events' = r.events
            /\ shipments' = r.shipments
            /\ \E latest \in Broadcast(events, r.events, order) :
                  IF emits
                  THEN /\ published' = published \cup Range(latest)
                       /\ connectedClients' =
                              BroadcastEach(connectedClients, r.events, shipments, latest)
                  ELSE UNCHANGED <<published, connectedClients>>
            /\ result' = [op |-> "processPeriodicUpdates", shipment_id |-> NULL,
                          outcome |-> "ok", created |-> r.created,
                          fetched |-> r.fetched, at |-> now]
            /\ UNCHANGED <<now, roomSubscriptions, subscriptions, dispatched, jobs,
                           inflight, pending, client>>

\* A periodic update that runs from start to end with nothing in between
ProcessPeriodicUpdates(E) ==
    PeriodicUpdate(E, roomSubscriptions) /\ UNCHANGED server

\* The callback of setInterval in startPeriodicUpdates up to the first await
\* of processPeriodicUpdates: the rooms are read, and with no active shipment
\* the update returns at once. The timer is never cleared.
TickStart ==
    /\ server.phase # "pool_closed"
    /\ server.periodic = "idle"
    /\ DOMAIN roomSubscriptions # {}
    /\ server' = [server EXCEPT !.periodic = "running", !.active = roomSubscriptions]
    /\ UNCHANGED <<events, shipments, now, connectedClients, roomSubscriptions,
                   result, subscriptions, published, dispatched, jobs, inflight, pending,
                   client>>

\* The rest of the periodic update that TickStart began
TickFinish(E) ==
    /\ server.phase # "pool_closed"
    /\ server.periodic = "running"
    /\ PeriodicUpdate(E, server.active)
    /\ server' = [server EXCEPT !.periodic = "idle", !.active = <<>>]

\* Server.shutdown up to the return of realTimeService.close():
\* service_shutdown is emitted to every socket, the sockets are closed and
\* the two maps cleared.
CloseRealTime ==
    /\ server.phase = "up"
    /\ server' = [server EXCEPT !.phase = "realtime_closed",
                                !.notified = DOMAIN connectedClients]
    /\ connectedClients' = [k \in {} |-> 0]
    /\ roomSubscriptions' = [k \in {} |-> {}]
    /\ inflight' = Orphaned(inflight, connectedClients, DOMAIN connectedClients)
    /\ UNCHANGED <<events, shipments, now, result, subscriptions, published,
                   dispatched, jobs, pending, client>>

\* Server.shutdown: this.server.close(resolve) has called back
CloseHttp ==
    /\ server.phase = "realtime_closed"
    /\ server' = [server EXCEPT !.phase = "http_closed"]
    /\ UNCHANGED <<events, shipments, now, connectedClients, roomSubscriptions,
                   result, subscriptions, published, dispatched, jobs, inflight, pending,
                   client>>

\* Server.shutdown: database.close() has closed the pool; process.exit
\* follows in the same turn
ClosePool ==
    /\ server.phase = "http_closed"
    /\ server' = [server EXCEPT !.phase = "pool_closed"]
    /\ UNCHANGED <<events, shipments, now, connectedClients, roomSubscriptions,
                   result, subscriptions, published, dispatched, jobs, inflight, pending,
                   client>>

-----------------------------------------------------------------------------
(* Notification dispatcher *)

Min(a, b) == IF a < b THEN a ELSE b

\* The wait before the attempt that follows the n-th failed one: exponential
\* from the configured delay, capped
backoffDelay(n) == Min(BackoffDelaySeconds * 2^(n - 1), MaxBackoffSeconds)

\* A NotificationJob after one more delivery attempt at time t
attempt(job, outcome, t) ==
    LET n == job.attempts + 1
    IN  CASE outcome = "ok" ->
                [job EXCEPT !.attempts = n, !.status = "completed"]
          [] outcome = "permanent" \/ n >= QueueAttempts ->
                [job EXCEPT !.attempts = n, !.status = "failed"]
          [] OTHER ->
                [job EXCEPT !.attempts = n, !.status = "delayed",
                            !.delay = backoffDelay(n),
                            !.next_at = t + backoffDelay(n)]

\* A job enters the queue for an event and a subscription
Enqueue ==
    \E i \in DOMAIN events, j \in 1..MaxSubs :
        /\ Len(jobs) < MaxJobs
        /\ jobs' = Append(jobs, [event |-> i, subscription |-> j, attempts |-> 0,
                                 status |-> "waiting", delay |-> 0, next_at |-> now])
        /\ UNCHANGED <<events, shipments, now, connectedClients, roomSubscriptions,
                       result, subscriptions, published, dispatched,
                       inflight, server, pending, client>>

\* The dispatcher takes a job that is due and attempts the delivery
Deliver ==
    \E k \in DOMAIN jobs, outcome \in DeliveryOutcomes :
        /\ jobs[k].status \in {"waiting", "delayed"}
        /\ jobs[k].next_at <= now
        /\ jobs' = [jobs EXCEPT ![k] = attempt(jobs[k], outcome, now)]
        /\ dispatched' = dispatched \cup
               {[event |-> jobs[k].event, subscription |-> jobs[k].subscription,
                 ok |-> outcome = "ok"]}
        /\ UNCHANGED <<events, shipments, now, connectedClients, roomSubscriptions,
                       result, subscriptions, published, inflight, server, pending,
                   client>>

\* Two seconds pass
DispatchTick ==
    /\ now < 2 * MaxTicks
    /\ now' = now + 2
    /\ UNCHANGED <<events, shipments, connectedClients, roomSubscriptions, result,
                   subscriptions, published, dispatched, jobs, inflight, server, pending,
                   client>>

-----------------------------------------------------------------------------
(* Specifications *)

\* The ingestion pipeline: manual events and forced refreshes from the feed
Next ==
    \/ ManualApply(ManualInputs)
    \/ ForceRefresh(FeedEvents)

Spec == Init /\ [][Next]_vars

\* The poll scheduler, the periodic update and the hub's subscriptions
NextPoll ==
    \/ AdvanceClock
    \/ ProcessAutomaticUpdates(PollFeedEvents)
    \/ ProcessPeriodicUpdates(PollFeedEvents)
    \/ ManualApply(PollInputs)
    \/ AdminDelete
    \/ Connection
    \/ HandleAuthentication(PollCustomers)
    \/ HandleShipmentSubscription(PollRooms)
    \/ HandleShipmentUnsubscription(PollRooms)
    \/ HandleDisconnection

SpecPoll == Init /\ [][NextPoll]_vars

\* Subscriptions and notifications, with store writes and deliveries that
\* may fail
NotifyApply ==
    ManualApplyWith(NotifyInputs, NotifyFaults) /\ Len(events') <= NotifyRows

NotifyRefresh ==
    ForceRefresh(NotifyFeedEvents) /\ Len(events') <= NotifyRows

NextNotify ==
    \/ SubscribeToTracking(NotifyCustomers, NotifySettings)
    \/ NotifyApply
    \/ NotifyRefresh

SpecNotify == Init /\ [][NextNotify]_vars

\* The same, with a server that keeps handling the requests it is sent
SpecNotifyFair == SpecNotify /\ WF_vars(NextNotify)

\* Events, notifications and the administrative operations on shipments
LogApply ==
    ManualApplyWith(LogInputs, LogFaults) /\ Len(events') <= NotifyRows

LogSettings == {s \in NotifySettings : s.all_events = 1}

NextLog ==
    \/ SubscribeToTracking(NotifyCustomers, LogSettings)
    \/ LogApply
    \/ NotifyRefresh
    \/ AdminDelete
    \/ AdminUpdateStatus

SpecLog == Init /\ [][NextLog]_vars

\* The hub's connections and subscriptions; a client may authenticate
\* without a customer id
HubCustomers == Customers \cup {NULL}

NextHub ==
    \/ Connection
    \/ HandleAuthentication(HubCustomers)
    \/ HandleShipmentSubscription(AllIds)
    \/ HandleShipmentUnsubscription(AllIds)
    \/ HandleCustomerSubscription(HubCustomers)
    \/ HandleDisconnection

SpecHub == Init /\ [][NextHub]_vars

\* The broadcasts of the periodic update to two sockets of one customer, in
\* the shipment's room and in the customer's room
FanoutClients == {"k1", "k2"}

NextFanout ==
    \/ Connect(FanoutClients)
    \/ HandleAuthentication(PollCustomers)
    \/ HandleShipmentSubscription(PollRooms)
    \/ HandleCustomerSubscription(PollCustomers)
    \/ ProcessPeriodicUpdates(PollFeedEvents)

SpecFanout == Init /\ [][NextFanout]_vars

\* One socket of either customer, its subscriptions to the shipments of both
\* and the broadcasts of the periodic update
NextIsolation ==
    \/ Connection
    \/ HandleAuthentication(Customers)
    \/ HandleShipmentSubscription(ShipmentIds)
    \/ HandleShipmentUnsubscription(ShipmentIds)
    \/ ProcessPeriodicUpdates(PollFeedEvents)

SpecIsolation == Init /\ [][NextIsolation]_vars

\* A socket that disconnects while its subscriptions by AWB are looked up,
\* and the periodic update
RaceFeedEvents == {e \in FeedEvents : e.eventType = "Storage"}

NextRace ==
    \/ Connection
    \/ HandleAuthentication(PollCustomers)
    \/ AwbLookupStart(PollRooms)
    \/ AwbLookupReturn
    \/ HandleDisconnection
    \/ ProcessPeriodicUpdates(RaceFeedEvents)

SpecRace == Init /\ [][NextRace]_vars

\* The server from its start to the end of its shutdown: sockets are served
\* until the real-time service is closed, the timer of the periodic update
\* fires until the process exits
NextShutdown ==
    \/ server.phase = "up" /\ Connection
    \/ server.phase = "up" /\ HandleAuthentication(PollCustomers)
    \/ server.phase = "up" /\ HandleShipmentSubscription(PollRooms)
    \/ server.phase = "up" /\ HandleDisconnection
    \/ TickStart
    \/ TickFinish(RaceFeedEvents)
    \/ CloseRealTime
    \/ CloseHttp
    \/ ClosePool

SpecShutdown == Init /\ [][NextShutdown]_vars

\* Events that come with or without a location
NextLocation ==
    \/ ManualApply(LocationInputs)
    \/ ForceRefresh(LocationFeedEvents)

SpecLocation == Init /\ [][NextLocation]_vars

\* Two requests of POST /tracking/update/{awb} handled at the same time
NextConcurrent ==
    \/ RefreshCheck(FeedEvents)
    \/ RefreshInsert

SpecConcurrent == Init /\ [][NextConcurrent]_vars

\* Forced refreshes whose store writes may fail, and manual events
NextFaulty ==
    \/ FaultyRefresh(FaultFeedEvents)
    \/ ManualApply(PollInputs)

SpecFaulty == Init /\ [][NextFaulty]_vars

\* The industry-feed adapter behind forced refreshes
NextAdapter ==
    \/ ForceRefresh(AdapterFeedEvents)
    \/ ManualApply(PollInputs)

SpecAdapter == Init /\ [][NextAdapter]_vars

\* Periodic updates whose feed reports an event older than one already
\* persisted
LateFeedEvents ==
    {e \in FeedEvents :
        \/ e.eventType = "Storage"
        \/ e.eventType = "Acceptance" /\ e.eventDateTime = <<600>> /\ e.id = "x2"}

NextLate ==
    \/ Connect(FanoutClients)
    \/ HandleAuthentication(PollCustomers)
    \/ HandleShipmentSubscription(PollRooms)
    \/ ProcessPeriodicUpdates(LateFeedEvents)

SpecLate == Init /\ [][NextLate]_vars

\* The poll scheduler over a fleet with more due shipments than one batch
\* holds
NextFleet ==
    \/ AdvanceClock
    \/ ProcessFleetUpdates(PollFeedEvents)
    \/ ManualApply(PollInputs)

SpecFleet == InitFleet /\ [][NextFleet]_vars

\* The dispatcher's queue
NextDispatch ==
    \/ Enqueue
    \/ Deliver
    \/ DispatchTick

SpecDispatch == Init /\ [][NextDispatch]_vars

-----------------------------------------------------------------------------
(* Properties *)

\* The canonical events the adapter makes of the modelled upstream events
FeedInputs == {m[1] : m \in {mapOneRecordEventToTracking(e) : e \in FeedEvents} \ {<<>>}}

\* The event data a persisted row was created from
DataOf(row) ==
    [event_code |-> row.event_code,
     event_category |-> row.event_category,
     event_location |-> row.event_location,
     event_datetime |-> row.event_datetime,
     is_milestone |-> row.is_milestone,
     is_exception |-> row.is_exception,
     is_critical |-> row.is_critical,
     external_event_id |-> row.external_event_id]

Derived(row) == <<row.current_status, row.current_location, row.delivery_date>>

IsApplyOn(sid) ==
    /\ result.op \in {"createTrackingEvent", "updateTrackingFromExternal"}
    /\ result.shipment_id = sid

\* The duplicate rule as C1 states it: both sides carry the same external id,
\* or neither side carries one.
DuplicateAsStated(evs, sid, c) ==
    \E i \in DOMAIN evs :
        /\ evs[i].shipment_id = sid
        /\ evs[i].event_code = c.event_code
        /\ Abs(evs[i].event_datetime - c.event_datetime) < 300
        /\ \/ /\ evs[i].external_event_id # NULL
              /\ c.external_event_id # NULL
              /\ evs[i].external_event_id = c.external_event_id
           \/ evs[i].external_event_id = NULL /\ c.external_event_id = NULL

\* The duplicate rule of the code: the candidate carries no external id, or
\* the stored event carries the candidate's.
DuplicateAsAmended(evs, sid, c) ==
    \E i \in DOMAIN evs :
        /\ evs[i].shipment_id = sid
        /\ evs[i].event_code = c.event_code
        /\ Abs(evs[i].event_datetime - c.event_datetime) < 300
        /\ \/ c.external_event_id = NULL
           \/ evs[i].external_event_id = c.external_event_id

\* Both entry points classify every candidate by Rule, and a duplicate
\* inserts no row and leaves the shipments as they are.
ClassifiesBy(Rule(_, _, _)) ==
    \A sid \in ShipmentIds :
        /\ \A c \in ManualInputs :
              LET r == createTrackingEvent(events, shipments, sid, c, "src-manual")
              IN  /\ (r.outcome = "duplicate") <=> Rule(events, sid, c)
                  /\ r.outcome = "duplicate" =>
                        r.events = events /\ r.shipments = shipments
        /\ \A c \in FeedInputs :
              LET r == createFromExternal(events, shipments, c, "src-iata", sid)
              IN  /\ (r.outcome = "duplicate") <=> Rule(events, sid, c)
                  /\ r.outcome = "duplicate" =>
                        r.events = events /\ r.shipments = shipments

RepeatIsNoOp ==
    /\ \A sid \in AllIds, c \in ManualInputs :
          LET r1 == createTrackingEvent(events, shipments, sid, c, "src-manual")
              r2 == createTrackingEvent(r1.events, r1.shipments, sid, c, "src-manual")
          IN  /\ Len(r2.events) = Len(r1.events)
              /\ \A s \in ShipmentIds :
                    Derived(r2.shipments[s]) = Derived(r1.shipments[s])
    /\ \A sid \in AllIds, response \in Responses(FeedEvents) :
          LET r1 == updateTrackingFromExternal(events, shipments, sid,
                                               "IATA_ONERECORD", response)
              r2 == updateTrackingFromExternal(r1.events, r1.shipments, sid,
                                               "IATA_ONERECORD", response)
          IN  /\ Len(r2.events) = Len(r1.events)
              /\ \A s \in ShipmentIds :
                    Derived(r2.shipments[s]) = Derived(r1.shipments[s])

\* Applying again, at any later time, the data of an event that is persisted
\* is refused as a duplicate.
PersistedIsDuplicate ==
    \A i \in DOMAIN events :
        LET row == events[i]
        IN  /\ createTrackingEvent(events, shipments, row.shipment_id, DataOf(row),
                                   row.source_id).outcome = "duplicate"
            /\ createFromExternal(events, shipments, DataOf(row), row.source_id,
                                  row.shipment_id).outcome = "duplicate"

\* A candidate that was a duplicate at an earlier point of the sequence, when
\* the store was a prefix of what it is now, is a duplicate now.
DuplicateStays ==
    \A k \in 0..Len(events), sid \in ShipmentIds, c \in ManualInputs \cup FeedInputs :
        checkDuplicate(SubSeq(events, 1, k), sid, c.event_code, c.event_datetime,
                       c.external_event_id)
        => checkDuplicate(events, sid, c.event_code, c.event_datetime,
                          c.external_event_id)

\* No step removes or changes a persisted event.
StoreGrows ==
    /\ Len(events') >= Len(events)
    /\ SubSeq(events', 1, Len(events)) = events

\* C2: repeating an Apply, right away or at any later point of the sequence,
\* leaves the number of persisted events and every shipment's current_status,
\* current_location and delivery_date as they were without the repetition.
C2_DedupIdempotence ==
    /\ [](RepeatIsNoOp /\ PersistedIsDuplicate /\ DuplicateStays)
    /\ [][StoreGrows]_vars

\* A repeated Apply was refused on a shipment whose state an event derived.
C2_Witness ==
    /\ result.op = "createTrackingEvent"
    /\ result.outcome = "duplicate"
    /\ result.shipment_id \in ShipmentIds
    /\ shipments[result.shipment_id].current_status \in {"BOOKED", "DELIVERED"}

\* The persisted event of a shipment that is greatest by (event_datetime,
\* created_at) among those whose code maps to a status
RowsOf(sid) == {i \in DOMAIN events : events[i].shipment_id = sid}

MappedRowsOf(sid) == {i \in RowsOf(sid) : statusMapping(events[i].event_code) # NULL}

Later(i, j) ==
    \/ events[i].event_datetime > events[j].event_datetime
    \/ events[i].event_datetime = events[j].event_datetime /\ i >= j

LatestMapped(sid) ==
    CHOOSE i \in MappedRowsOf(sid) : \A j \in MappedRowsOf(sid) : Later(i, j)

\* C3: after an Apply that created an event, the shipment's current_status is
\* the status mapped from its persisted event with the greatest
\* (event_datetime, created_at) among the events whose code maps to a status.
C3_StatusOfLatestEvent ==
    \A sid \in ShipmentIds :
        (IsApplyOn(sid) /\ result.created > 0) =>
            shipments[sid].current_status =
                statusMapping(events[LatestMapped(sid)].event_code)

\* The store and the shipments after Shipment.create, before any Apply
Start ==
    CreatedAtStart([sid \in ShipmentIds |-> shipments[sid].tracking_enabled])

RECURSIVE Replay(_, _, _)
Replay(evs, shp, rows) ==
    IF rows = <<>> THEN [events |-> evs, shipments |-> shp]
    ELSE LET r == createFromExternal(evs, shp, DataOf(Head(rows)),
                                     Head(rows).source_id, Head(rows).shipment_id)
         IN  Replay(r.events, r.shipments, Tail(rows))

\* The events applied so far, in the order of their application
Applied == SubSeq(events, Cardinality(ShipmentIds) + 1, Len(events))

\* C4: applying the persisted events in any other order yields the same
\* current_status, current_location and delivery_date for every shipment.
C4_OrderDoesNotMatter ==
    \A p \in Orders(DOMAIN Applied) :
        LET r == Replay(Start.events, Start.shipments,
                        [i \in DOMAIN Applied |-> Applied[p[i]]])
        IN  \A sid \in ShipmentIds :
                Derived(r.shipments[sid]) = Derived(shipments[sid])

\* The rows of a shipment, by index, have non-decreasing event times
NonDecreasing(sid) ==
    \A i, j \in RowsOf(sid) :
        i < j => events[i].event_datetime <= events[j].event_datetime

LastRowOf(sid) == CHOOSE i \in RowsOf(sid) : \A j \in RowsOf(sid) : j <= i

\* C5: when the events of a shipment were applied with non-decreasing
\* event_datetime and each has a code that maps to a status, current_status
\* after an Apply that created an event is the status mapped from the code of
\* the last one.
C5_StatusOfLastAppended ==
    \A sid \in ShipmentIds :
        ( /\ IsApplyOn(sid) /\ result.created > 0
          /\ NonDecreasing(sid)
          /\ MappedRowsOf(sid) = RowsOf(sid) )
        => shipments[sid].current_status =
               statusMapping(events[LastRowOf(sid)].event_code)

\* C6: every shipment's current_status is one of the twelve statuses.
C6_StatusInEnumeration ==
    \A sid \in ShipmentIds : shipments[sid].current_status \in Statuses

\* C7: delivery_date is set exactly when current_status is DELIVERED, and then
\* it is the event_datetime of the latest DELIVERED event of the shipment.
C7_DeliveryDateIffDelivered ==
    \A sid \in ShipmentIds :
        LET row == shipments[sid]
        IN  /\ (row.delivery_date # NoTime) <=> (row.current_status = "DELIVERED")
            /\ row.delivery_date # NoTime =>
                   /\ events[LatestMapped(sid)].event_code = "DELIVERED"
                   /\ row.delivery_date = <<events[LatestMapped(sid)].event_datetime>>

IsPollStep ==
    /\ result' # result
    /\ result'.op \in {"processAutomaticUpdates", "processPeriodicUpdates"}

\* C8: while a shipment is DELIVERED or CANCELLED, no step changes its
\* last_tracked_at and no poll fetches it from upstream.
C8_Quiescence ==
    [][\A sid \in ShipmentIds :
          shipments[sid].current_status \in {"DELIVERED", "CANCELLED"} =>
              /\ shipments'[sid].last_tracked_at = shipments[sid].last_tracked_at
              /\ IsPollStep => sid \notin result'.fetched]_vars

C10_TickStampsLastTracked ==
    result.op = "processAutomaticUpdates" =>
        \A sid \in result.fetched : shipments[sid].last_tracked_at = <<result.at>>

\* C11: an Apply for a shipment id that does not exist is rejected and writes
\* nothing; an update from an external source of a shipment with tracking
\* disabled is rejected, creates no event and changes no shipment; a manual
\* Apply has the same outcome whether tracking is enabled or not, and is never
\* rejected for an existing shipment.
C11_Eligibility ==
    /\ \A c \in ManualInputs :
          LET r == createTrackingEvent(events, shipments, UnknownId, c, "src-manual")
          IN  r.outcome = "rejected" /\ r.events = events /\ r.shipments = shipments
    /\ \A response \in Responses(FeedEvents), sourceType \in {"IATA_ONERECORD", "AIRLINE"} :
          /\ LET r == updateTrackingFromExternal(events, shipments, UnknownId,
                                                 sourceType, response)
             IN  /\ r.outcome = "rejected" /\ r.created = 0
                 /\ r.events = events /\ r.shipments = shipments
          /\ \A sid \in ShipmentIds :
                shipments[sid].tracking_enabled = 0 =>
                    LET r == updateTrackingFromExternal(events, shipments, sid,
                                                        sourceType, response)
                    IN  /\ r.outcome = "disabled" /\ r.created = 0
                        /\ r.events = events /\ r.shipments = shipments
    /\ \A sid \in ShipmentIds, c \in ManualInputs :
          LET flipped == [shipments EXCEPT ![sid].tracking_enabled = 1 - @]
              r == createTrackingEvent(events, shipments, sid, c, "src-manual")
              f == createTrackingEvent(events, flipped, sid, c, "src-manual")
          IN  /\ r.outcome \in {"created", "duplicate"}
              /\ f.outcome = r.outcome
              /\ f.events = r.events

\* A forced refresh of a shipment with tracking disabled was refused after a
\* manual Apply had created an event for that shipment.
C11_Witness ==
    /\ result.op = "updateTrackingFromExternal"
    /\ result.outcome = "disabled"
    /\ \E i \in DOMAIN events :
          /\ i > Cardinality(ShipmentIds)
          /\ events[i].shipment_id = result.shipment_id


\* A step of POST /tracking/events
IsManualApply == result'.op = "createTrackingEvent"

\* The row a step appended, if it appended one
Appended == Len(events') = Len(events) + 1 /\ SubSeq(events', 1, Len(events)) = events

\* C12: event persistence and state derivation are atomic.  A manual Apply,
\* also one in which a store write fails, either leaves events and shipments
\* as they were, or appends the event and leaves the shipment as
\* TrackingEvent.create derives it from that event; it never does one without
\* the other.
C12_PersistAndDeriveAtomic ==
    [][IsManualApply =>
          \/ events' = events /\ shipments' = shipments
          \/ /\ Appended
             /\ shipments' = create(events, shipments, events'[Len(events')]).shipments
      ]_vars

\* The rows a step added to tracking_events
NewRows == (Len(events) + 1)..Len(events')

\* C13: every Apply that creates an event, by POST /tracking/events, by
\* processAutomaticUpdates or by the periodic update, publishes that event to
\* the hub.  A periodic update whose broadcast threw, and so emitted nothing,
\* is not held against the claim.
C13_CreatedIsPublished ==
    [][(/\ result'.op \in {"createTrackingEvent", "processAutomaticUpdates",
                           "processPeriodicUpdates"}
        /\ NewRows # {})
          => \/ NewRows \subseteq published'
             \/ result'.op = "processPeriodicUpdates" /\ published' = published
      ]_vars

\* The rows of tracking_events without their notification_sent flag
Unflagged(evs) == [i \in DOMAIN evs |-> [evs[i] EXCEPT !.notification_sent = 0]]

\* The faults that come after the event was persisted: the SELECT of the
\* subscriptions, a delivery, the UPDATE of notification_sent
AfterPersisting == {f \in NotifyFaults : f.store \in {"none", "query", "mark"}}

Matches(sub, ev) ==
    \/ sub.all_events = 1
    \/ sub.milestone_notifications = 1 /\ ev.is_milestone = 1
    \/ sub.exception_notifications = 1 /\ ev.is_exception = 1
    \/ sub.location_updates = 1 /\ ev.event_category = "LOCATION_UPDATE"

\* The active subscriptions of a shipment
ActiveSubscriptions(sid) ==
    {j \in DOMAIN subscriptions :
        subscriptions[j].shipment_id = sid /\ subscriptions[j].is_active = 1}

\* A POST /tracking/events in which nothing fails dispatches to a
\* subscription exactly when the subscription matches the created event
ManualDispatchMatches ==
    \A sid \in ShipmentIds, data \in NotifyInputs :
        LET r == createTrackingEventWith(events, shipments, subscriptions, sid,
                                         data, "src-manual", NoFaults)
        IN  r.outcome = "created" =>
                \A j \in ActiveSubscriptions(sid) :
                    (\E d \in r.dispatched :
                        d.event = Len(r.events) /\ d.subscription = j)
                    <=> Matches(subscriptions[j], r.events[Len(r.events)])

\* A refresh from the feed dispatches every event it creates to the
\* subscriptions that match it, and to no other
FeedDispatchMatches ==
    result'.op = "updateTrackingFromExternal" =>
        \A i \in NewRows : \A j \in ActiveSubscriptions(events'[i].shipment_id) :
            (\E d \in dispatched' : d.event = i /\ d.subscription = j)
            <=> Matches(subscriptions[j], events'[i])

\* C15: for every created event and every active subscription of its
\* shipment, a notification is dispatched to the subscription if and only if
\* all_events is set, or milestone notifications are set and the event is a
\* milestone, or exception notifications are set and the event is an
\* exception, or location_updates is set and the event's category is
\* LOCATION_UPDATE.
C15_DispatchedIffMatches ==
    [][ManualDispatchMatches /\ FeedDispatchMatches]_vars

\* C16: an event's notification_sent flag is set only after a successful
\* dispatch to the subscription concerned: no event is recorded as notified
\* while the delivery of it to a selected subscription has failed.
C16_SentOnlyAfterDelivery ==
    \A i \in DOMAIN events :
        events[i].notification_sent = 1 =>
            \A d \in dispatched : d.event = i => d.ok

\* Row i is an event that matches an active subscription of its shipment
MatchesSubscription(i) ==
    /\ i \in DOMAIN events
    /\ \E j \in ActiveSubscriptions(events[i].shipment_id) :
           Matches(subscriptions[j], events[i])

\* Row i is recorded as notified, or a delivery of it is recorded as failed
Covered(i) ==
    /\ i \in DOMAIN events
    /\ \/ events[i].notification_sent = 1
       \/ \E d \in dispatched : d.event = i /\ ~d.ok

\* Row i was created by the handler that just returned without an error, and
\* matches a subscription that was active when it was created
CreatedMatching(i) ==
    /\ result.op \in {"createTrackingEvent", "updateTrackingFromExternal"}
    /\ result.outcome # "failed"
    /\ result.created > 0
    /\ i = Len(events)
    /\ MatchesSubscription(i)

\* C17: notification coverage.  Every persisted event that matches an active
\* subscription, whichever path created it, eventually has notification_sent
\* set or a failed delivery on record.
C17_NotificationCoverage ==
    \A i \in 1..NotifyRows : CreatedMatching(i) ~> Covered(i)

\* The jobs that are still to be attempted
Open(job) == job.status \in {"waiting", "delayed"}

RoomsHolding(rooms, k) == {sid \in DOMAIN rooms : k \in rooms[sid]}

\* Client k's subscribe_shipment or subscribe_customer was handled in this step
SubscribeHandled(k) ==
    /\ k \in DOMAIN connectedClients /\ k \in DOMAIN connectedClients'
    /\ connectedClients'[k] # connectedClients[k]
    /\ connectedClients'[k].lastOn \in {"subscribe_shipment", "subscribe_customer"}

\* C19: a client that has not authenticated is refused on subscribe_shipment
\* and on subscribe_customer: it joins no room, nothing is added to its
\* subscriptions or to roomSubscriptions, and it receives subscription_error.
C19_UnauthenticatedRefused ==
    [][\A k \in Clients :
          (SubscribeHandled(k) /\ ~connectedClients[k].authenticated) =>
              /\ connectedClients'[k].rooms = connectedClients[k].rooms
              /\ connectedClients'[k].subscriptions = connectedClients[k].subscriptions
              /\ roomSubscriptions' = roomSubscriptions
              /\ connectedClients'[k].lastEmit = "subscription_error"
      ]_vars

\* A connected client that never authenticated has been answered
\* subscription_error and is in no room
C19_Witness ==
    \E k \in DOMAIN connectedClients :
        /\ ~connectedClients[k].authenticated
        /\ connectedClients[k].lastOn \in {"subscribe_shipment", "subscribe_customer"}
        /\ connectedClients[k].lastEmit = "subscription_error"
        /\ connectedClients[k].rooms = {}
        /\ RoomsHolding(roomSubscriptions, k) = {}

\* The shipments whose room client k joined in this step
Joined(k) ==
    (connectedClients'[k].subscriptions \ connectedClients[k].subscriptions)
    \cup {id \in AllIds : <<"shipment", id>> \in
             connectedClients'[k].rooms \ connectedClients[k].rooms}
    \cup (RoomsHolding(roomSubscriptions', k) \ RoomsHolding(roomSubscriptions, k))

\* C20: a client authenticated with a customer id is joined to the room of a
\* shipment and recorded in roomSubscriptions only if the shipment's
\* customer_id is the client's customer id, whether it subscribes by
\* shipmentId or by awbNumber.
C20_JoinsOnlyOwnShipments ==
    [][\A k \in Clients :
          (SubscribeHandled(k) /\ connectedClients[k].customerId # NULL) =>
              \A id \in Joined(k) :
                  /\ id \in DOMAIN shipments
                  /\ shipments[id].customer_id = connectedClients[k].customerId
      ]_vars

\* The customers whose room a client's record names
CustomerRooms(clientInfo) ==
    {c \in HubCustomers : <<"customer", c>> \in clientInfo.rooms}

\* C21: subscribe_customer joins a client to the room customer:{id} only when
\* id is the customer id the client authenticated with; for any other id the
\* client joins nothing and receives subscription_error.
C21_CustomerRoomOnlyOwn ==
    \A k \in DOMAIN connectedClients, id \in HubCustomers :
        LET before == connectedClients[k]
            after == handleCustomerSubscription(before, id)
        IN  IF before.authenticated /\ before.customerId = id
            THEN /\ CustomerRooms(after) = CustomerRooms(before) \cup {id}
                 /\ after.lastEmit = "customer_subscribed"
            ELSE /\ after.rooms = before.rooms
                 /\ after.subscriptions = before.subscriptions
                 /\ after.lastEmit = "subscription_error"

\* A client authenticated as a customer was refused on subscribe_customer,
\* and one is in the room of its own customer
C21_Witness ==
    \E k \in DOMAIN connectedClients :
        /\ connectedClients[k].authenticated
        /\ connectedClients[k].customerId \in Customers
        /\ connectedClients[k].lastOn = "subscribe_customer"
        /\ connectedClients[k].lastEmit = "subscription_error"
        /\ CustomerRooms(connectedClients[k]) = {connectedClients[k].customerId}


-----------------------------------------------------------------------------
(* Fan-out of published events *)

\* The broadcasts emitted to socket k in the step
NewlyReceived(k) ==
    SubSeq(connectedClients'[k].received,
           Len(connectedClients[k].received) + 1,
           Len(connectedClients'[k].received))

\* The messages of one type about row i among msgs
Copies(msgs, type, i) ==
    {n \in DOMAIN msgs : msgs[n].type = type /\ msgs[n].event = i}

\* The rows of events' broadcast in the step: those some socket received
BroadcastRows ==
    {i \in DOMAIN events' :
        \E k \in DOMAIN connectedClients :
            \E n \in DOMAIN NewlyReceived(k) : NewlyReceived(k)[n].event = i}

\* The sockets joined to the shipment's room or to its owner's room when row
\* i is broadcast
JoinedFor(i) ==
    LET sid == events'[i].shipment_id
    IN  {k \in DOMAIN connectedClients :
            \/ <<"shipment", sid>> \in connectedClients[k].rooms
            \/ <<"customer", shipments[sid].customer_id>> \in connectedClients[k].rooms}

\* C22: when an event of shipment S owned by customer C is broadcast, every
\* client joined to shipment:S and every client joined to customer:C at that
\* time receives exactly one tracking_event message for it.
C22_FanOutFidelity ==
    [][\A i \in BroadcastRows : \A k \in JoinedFor(i) :
          Cardinality(Copies(NewlyReceived(k), "tracking_event", i)) = 1]_vars


\* is_critical, is_exception or is_milestone is set on row i
Flagged(i) ==
    events'[i].is_critical = 1 \/ events'[i].is_exception = 1 \/ events'[i].is_milestone = 1

\* C23: a critical_update message about a broadcast event is emitted exactly
\* when the event has is_critical, is_exception or is_milestone set, and then
\* it reaches every client that received the normal message about the event,
\* in the shipment's room as well as in the customer's room.
C23_CriticalUpdateReachesAll ==
    [][\A k \in DOMAIN connectedClients : \A i \in DOMAIN events' :
          (\/ Copies(NewlyReceived(k), "tracking_event", i) # {}
           \/ Copies(NewlyReceived(k), "customer_tracking_update", i) # {}) =>
              (Copies(NewlyReceived(k), "critical_update", i) # {} <=> Flagged(i))]_vars


\* The capacity of a client's outbound queue. The hub has no such setting;
\* every capacity below the number of emits to one socket gives the same
\* result.
QueueCapacity == 2

\* C24: the messages queued for a client that reads none of them never number
\* more than the queue's capacity (when the queue is full the oldest unsent
\* message is dropped and the client's drop counter incremented).
C24_QueueNeverExceedsCapacity ==
    \A k \in DOMAIN connectedClients :
        Len(connectedClients[k].received) <= QueueCapacity


-----------------------------------------------------------------------------
(* Access isolation *)

\* The shipment belongs to customer c
OwnedBy(sid, c) == sid \in DOMAIN shipments /\ shipments[sid].customer_id = c

\* What the four read paths give a caller of customer c belongs to c
ReadsIsolated ==
    \A c \in Customers :
        /\ \A id \in AllIds :
              /\ getTrackingByAwb(shipments, events, id, c).outcome = "ok" => OwnedBy(id, c)
              /\ getTrackingById(shipments, events, id, c).outcome = "ok" => OwnedBy(id, c)
              /\ getShipmentTrackingEvents(shipments, events, c, id).outcome = "ok" =>
                     OwnedBy(id, c)
        /\ \A customerId \in Customers :
              \A h \in getCustomerTrackingHistory(shipments, events, c, customerId).tracking_history :
                  OwnedBy(h.shipment_id, c)

\* The snapshots and the events pushed to socket k in the step are of
\* shipments of the customer the socket is authenticated for
PushesIsolated(k) ==
    LET c == connectedClients[k].customerId
    IN  c \in Customers =>
            /\ \A sid \in connectedClients'[k].snapshots \ connectedClients[k].snapshots :
                   OwnedBy(sid, c)
            /\ \A n \in DOMAIN NewlyReceived(k) :
                   OwnedBy(events'[NewlyReceived(k)[n].event].shipment_id, c)

\* C25: a caller of customer c never receives the data or the events of a
\* shipment of another customer: not from getTrackingByAwb, getTrackingById,
\* getShipmentTrackingEvents or getCustomerTrackingHistory, and not in the
\* snapshot and the events pushed after subscribe_shipment.
C25_AccessIsolation ==
    [][/\ ReadsIsolated
       /\ \A k \in DOMAIN connectedClients \cap DOMAIN connectedClients' :
              PushesIsolated(k)]_vars


-----------------------------------------------------------------------------
(* The event log *)

\* Two event rows that differ at most in the processing flag
SameButFlags(a, b) ==
    [a EXCEPT !.notification_sent = 0] = [b EXCEPT !.notification_sent = 0]

\* C26: the event log is append-only and its events are immutable: a step
\* keeps every persisted event, changing at most its processing flag, and
\* keeps every shipment; Shipment.delete changes nothing but the shipment's
\* current_status, which becomes CANCELLED.
C26_AppendOnlyLog ==
    [][/\ Len(events') >= Len(events)
       /\ \A i \in DOMAIN events : SameButFlags(events[i], events'[i])
       /\ DOMAIN shipments' = DOMAIN shipments
       /\ result'.op = "delete" =>
              /\ events' = events
              /\ shipments' = [shipments EXCEPT
                                  ![result'.shipment_id].current_status = "CANCELLED"]]_vars

C26_Witness ==
    /\ result.op = "delete"
    /\ shipments[result.shipment_id].current_status = "CANCELLED"
    /\ shipments[result.shipment_id].current_location # NULL
    /\ Len(events) > Cardinality(ShipmentIds)
    /\ \E i \in DOMAIN events :
           events[i].shipment_id = result.shipment_id /\ events[i].notification_sent = 1


\* C27: a shipment's current_status becomes CANCELLED only in a step of
\* Shipment.delete or Shipment.updateStatus on that shipment, never in the
\* application of a tracking event, manual or external, whatever its code.
C27_CancelledOnlyByAdmin ==
    [][\A sid \in DOMAIN shipments :
          (shipments'[sid].current_status = "CANCELLED"
              /\ shipments[sid].current_status # "CANCELLED") =>
                 /\ result'.op \in {"delete", "updateStatus"}
                 /\ result'.shipment_id = sid]_vars

C27_Witness ==
    /\ result.op = "createTrackingEvent" /\ result.created = 1
    /\ events[Len(events)].event_code = "CANCELLED"
    /\ events[Len(events)].shipment_id = result.shipment_id
    /\ shipments[result.shipment_id].current_status # "CANCELLED"
    /\ shipments[result.shipment_id].current_location = events[Len(events)].event_location
    /\ \E sid \in DOMAIN shipments : shipments[sid].current_status = "CANCELLED"


-----------------------------------------------------------------------------
(* The adapter's fetch *)

\* C28: for a shipment whose tracking is fetched, what getTrackingData
\* returns for a request that failed differs from what it returns for any
\* request that succeeded, one with zero events included, and the refresh
\* does not report the failed fetch as a refresh that went through.
C28_FailedFetchDistinguishable ==
    \A sid \in DOMAIN shipments : shipments[sid].tracking_enabled # 0 =>
        \A failed, fetched \in Responses(FeedEvents) :
            (~failed.ok /\ fetched.ok) =>
                /\ getTrackingData(failed) # getTrackingData(fetched)
                /\ updateTrackingFromExternal(events, shipments, sid,
                       "IATA_ONERECORD", failed).outcome # "ok"

-----------------------------------------------------------------------------
(* Disconnection *)

\* C29: a socket whose disconnect has been handled has no entry in
\* connectedClients and its id is in no set of roomSubscriptions, whatever
\* subscribe_shipment calls of the socket were in flight and whatever was
\* published meanwhile: while a socket id has no entry in connectedClients,
\* no room holds it.
C29_DisconnectedHoldsNoRoom ==
    \A k \in Clients : k \notin DOMAIN connectedClients =>
        \A room \in DOMAIN roomSubscriptions : k \notin roomSubscriptions[room]


-----------------------------------------------------------------------------
(* Shutdown *)

\* The steps of Server.shutdown come in their order: the clients are sent
\* service_shutdown and the real-time service is closed, then the HTTP
\* server, then the pool
ShutdownInOrder ==
    /\ (server.phase = "up" /\ server'.phase # "up") =>
           /\ server'.phase = "realtime_closed"
           /\ server'.notified = DOMAIN connectedClients
           /\ DOMAIN connectedClients' = {}
    /\ (server.phase # "http_closed" /\ server'.phase = "http_closed") =>
           server.phase = "realtime_closed"
    /\ (server.phase # "pool_closed" /\ server'.phase = "pool_closed") =>
           server.phase = "http_closed"

\* C30: shutdown notifies the clients and closes the real-time service, then
\* closes the HTTP server, and closes the pool only after both; when the pool
\* is closed no periodic update is still in progress, and none starts after.
C30_GracefulShutdown ==
    [][/\ ShutdownInOrder
       /\ server'.phase = "pool_closed" => server'.periodic = "idle"]_vars

-----------------------------------------------------------------------------
(* Location of the shipment *)

\* The event updates the shipment (a milestone or a status update) and its
\* code has a status in statusMapping
DeterminesStatus(ev) ==
    /\ ev.is_milestone = 1 \/ ev.event_category = "STATUS_UPDATE"
    /\ statusMapping(ev.event_code) # NULL

\* C31: after an Apply that creates an event determining the status,
\* current_location is the event's event_location when the event has one;
\* when it has none, current_location keeps the value it had and is not
\* overwritten with an empty value.
C31_LocationKeptWithoutEventLocation ==
    [][(/\ result'.op \in {"createTrackingEvent", "updateTrackingFromExternal"}
        /\ Appended
        /\ DeterminesStatus(events'[Len(events')]))
          => LET ev == events'[Len(events')]
                 sid == ev.shipment_id
             IN  IF ev.event_location # NULL
                 THEN shipments'[sid].current_location = ev.event_location
                 ELSE shipments'[sid].current_location = shipments[sid].current_location
      ]_vars

-----------------------------------------------------------------------------
(* Dedup of concurrent Applies *)

\* Rows i and j are events of one shipment with the same code, event times
\* less than 300 s apart and the same or no external id
SameLogicalEvent(i, j) ==
    /\ events[i].shipment_id = events[j].shipment_id
    /\ events[i].event_code = events[j].event_code
    /\ Abs(events[i].event_datetime - events[j].event_datetime) < DedupWindowSeconds
    /\ events[i].external_event_id = events[j].external_event_id

\* C32: when two Applies of the same logical event for the same shipment run
\* concurrently, at most one event row is created: the store never holds two
\* events of one shipment with the same code, event times less than 300 s
\* apart and the same or no external id.
C32_DedupUnderConcurrency ==
    \A i, j \in DOMAIN events : i # j => ~SameLogicalEvent(i, j)

-----------------------------------------------------------------------------
(* Duplicates and failures within one refresh *)

\* C33: within one updateTrackingFromExternal call a fetched event that is a
\* duplicate, or otherwise fails to be created, does not keep the remaining
\* fetched events from being applied, and the returned events_created is the
\* number of events the call persisted.
C33_CreatedCountsPersisted ==
    [][result'.op = "updateTrackingFromExternal" =>
          result'.created = Len(events') - Len(events)]_vars

-----------------------------------------------------------------------------
(* Canonical events of the industry-feed adapter *)

EventCategories == {"STATUS_UPDATE", "LOCATION_UPDATE", "MILESTONE", "EXCEPTION", "NOTIFICATION"}

SeverityLevels == {"INFO", "WARNING", "ERROR", "CRITICAL"}

\* The upstream events the adapter keeps whose canonical event is row i
UpstreamOf(i) ==
    {e \in AdapterFeedEvents :
        /\ events[i].source_id = getSourceId("IATA_ONERECORD")
        /\ mapOneRecordEventToTracking(e) # <<>>
        /\ LET m == mapOneRecordEventToTracking(e)[1]
           IN  /\ events[i].event_code = m.event_code
               /\ events[i].event_category = m.event_category
               /\ events[i].event_datetime = m.event_datetime
               /\ events[i].external_event_id = m.external_event_id}

\* Upstream events of an unknown type or without a valid time give no
\* canonical event
UnknownOrUntimedDropped ==
    \A e \in AdapterFeedEvents :
        (mapEventTypeToCode(e.eventType) = NULL \/ e.eventDateTime = NoTime)
            => mapOneRecordEventToTracking(e) = <<>>

\* C34: every canonical event the industry-feed adapter produces has a
\* non-empty event code, a valid event_datetime, a category among
\* STATUS_UPDATE, LOCATION_UPDATE, MILESTONE, EXCEPTION, NOTIFICATION and a
\* severity among INFO, WARNING, ERROR, CRITICAL; upstream events with an
\* unknown type or without a valid time are dropped.
C34_CanonicalEventWellFormed ==
    /\ UnknownOrUntimedDropped
    /\ \A i \in DOMAIN events : \A e \in UpstreamOf(i) :
          /\ events[i].event_code # NULL
          /\ events[i].event_datetime \in Nat
          /\ events[i].event_category \in EventCategories
          /\ determineSeverityLevel(e) \in SeverityLevels

-----------------------------------------------------------------------------
(* Snapshot carried by a published event *)

\* C35: the shipment snapshot (current_status, current_location) carried by a
\* tracking_event message equals the shipment's derived state after the Apply
\* of the event being published, also when the periodic update publishes it
\* (here: a periodic update that created one event, so that the state after
\* that Apply is the state after the step).
C35_SnapshotIsStateAfterApply ==
    [][(result'.op = "processPeriodicUpdates" /\ result'.created = 1) =>
          \A k \in DOMAIN connectedClients :
              \A n \in DOMAIN NewlyReceived(k) :
                  LET msg == NewlyReceived(k)[n]
                      sid == events'[msg.event].shipment_id
                  IN  msg.type = "tracking_event" =>
                          /\ msg.shipment.current_status = shipments'[sid].current_status
                          /\ msg.shipment.current_location = shipments'[sid].current_location
      ]_vars

-----------------------------------------------------------------------------
(* Events broadcast by a periodic update *)

\* C36: in one periodic update the events broadcast to the subscribers are
\* the events that update created: every tracking_event message is about a
\* row the update created, no row is broadcast twice to a socket, and when
\* anything is broadcast every created row is, also when the new events have
\* older event times than existing ones.
C36_BroadcastIsCreated ==
    [][result'.op = "processPeriodicUpdates" =>
          /\ \A k \in DOMAIN connectedClients : \A i \in DOMAIN events' :
                Copies(NewlyReceived(k), "tracking_event", i) # {} =>
                    /\ i \in NewRows
                    /\ Cardinality(Copies(NewlyReceived(k), "tracking_event", i)) = 1
          /\ BroadcastRows # {} => NewRows \subseteq BroadcastRows
      ]_vars

-----------------------------------------------------------------------------
(* Bookkeeping of the hub *)

\* C37: every socket id in a roomSubscriptions set belongs to a client in
\* connectedClients whose subscriptions hold that room's shipment id, and
\* conversely every subscription of a connected client has its socket id in
\* the room's set; roomSubscriptions keeps no entry whose set is empty.
C37_HubBookkeeping ==
    /\ \A sid \in DOMAIN roomSubscriptions :
          /\ roomSubscriptions[sid] # {}
          /\ \A k \in roomSubscriptions[sid] :
                /\ HasKey(connectedClients, k)
                /\ sid \in connectedClients[k].subscriptions
    /\ \A k \in DOMAIN connectedClients :
          \A sid \in connectedClients[k].subscriptions :
              /\ HasKey(roomSubscriptions, sid)
              /\ k \in roomSubscriptions[sid]

-----------------------------------------------------------------------------
(* Fairness of the poll scheduler *)

\* A step of processAutomaticUpdates at the current time
IsTickStep ==
    /\ result'.op = "processAutomaticUpdates"
    /\ result'.at = now
    /\ now' = now
    /\ result' # result \/ shipments' # shipments \/ events' # events

\* The shipments that were due at the tick and left out of its batch
LeftOut ==
    {u \in DOMAIN shipments : IsDue(shipments[u], now)} \ result'.fetched

\* C38: with more due shipments than one batch holds, the shipments a tick
\* polled move behind the ones it left out (oldest last_tracked_at first), so
\* that the same batch is not selected on every tick and every shipment that
\* stays due is selected after finitely many ticks: after the tick a polled
\* shipment is no longer due or is ordered strictly after every shipment left
\* out.
C38_PolledMoveBehind ==
    [][IsTickStep =>
          \A s \in result'.fetched : \A u \in LeftOut :
              \/ ~IsDue(shipments'[s], now)
              \/ ~TrackedBefore(shipments'[s], shipments'[u])]_vars


-----------------------------------------------------------------------------
(* The push client of the frontend (services/realTimeTrackingService.js).   *)
(* The socket.io socket is the environment of the client: it delivers       *)
(* 'connect', 'connect_error', 'disconnect' and the server's messages to    *)
(* the handlers connect() registers. connect() creates the socket with      *)
(* autoConnect: false and does not open it; the only socket.connect() of    *)
(* the file is the one in the timer of handleReconnect. The model takes the *)
(* opening of a created socket as a step of the environment (OpenSocket),   *)
(* so that the handlers have something to handle.                           *)

\* The timers one client may have set and not yet seen fire
MaxTimers == 2

\* The shipments the server confirms subscriptions for
ClientShipments == {"s1"}

\* The reasons socket.io gives a 'disconnect' event that the client did not
\* ask for
DisconnectReasons == {"transport close", "io server disconnect"}

\* Math.min(this.reconnectDelay * Math.pow(2, this.reconnectAttempts - 1), 30000)
reconnectBackoff(reconnectDelay, reconnectAttempts) ==
    IF reconnectDelay * 2 ^ (reconnectAttempts - 1) < 30000
    THEN reconnectDelay * 2 ^ (reconnectAttempts - 1)
    ELSE 30000

handleReconnect_NoLimit(c) ==
    [c EXCEPT !.reconnectAttempts = @ + 1,
              !.scheduled = @ + 1,
              !.timers = Append(@, [attempt |-> c.reconnectAttempts + 1,
                                    delay |-> reconnectBackoff(c.reconnectDelay,
                                                  c.reconnectAttempts + 1)])]

\* handleReconnect: at the limit connection:failed and nothing else; below
\* it the counter goes up and setTimeout is called with the delay
handleReconnect(c) ==
    IF c.reconnectAttempts >= maxReconnectAttempts
    THEN [c EXCEPT !.emitted = Append(@, "connection:failed")]
    ELSE [c EXCEPT !.reconnectAttempts = @ + 1,
                   !.scheduled = @ + 1,
                   !.timers = Append(@, [attempt |-> c.reconnectAttempts + 1,
                                         delay |-> reconnectBackoff(c.reconnectDelay,
                                                       c.reconnectAttempts + 1)])]

\* The handler of 'disconnect': both flags false, connection:lost, then
\* connection:terminated for a disconnect of the server and handleReconnect
\* for every other reason
onDisconnect(c, reason) ==
    LET lost == [c EXCEPT !.isConnected = FALSE, !.isAuthenticated = FALSE,
                          !.emitted = Append(@, "connection:lost")]
    IN  IF reason = "io server disconnect"
        THEN [lost EXCEPT !.emitted = Append(@, "connection:terminated")]
        ELSE handleReconnect(lost)

\* connect() of the client with no socket: io(url, config) and the handlers
ClientConnect ==
    /\ client.socket = "none"
    /\ client' = [client EXCEPT !.socket = "idle", !.emitted = <<>>]
    /\ UNCHANGED <<events, shipments, now, connectedClients, roomSubscriptions,
                   result, subscriptions, published, dispatched, jobs, inflight,
                   server, pending>>

\* The created socket is opened
OpenSocket ==
    /\ client.socket = "idle"
    /\ client' = [client EXCEPT !.socket = "opening", !.emitted = <<>>]
    /\ UNCHANGED <<events, shipments, now, connectedClients, roomSubscriptions,
                   result, subscriptions, published, dispatched, jobs, inflight,
                   server, pending>>

\* 'connect' on the socket
OnConnect ==
    /\ client.socket = "opening"
    /\ client' = [client EXCEPT !.socket = "connected",
                                !.isConnected = TRUE,
                                !.reconnectAttempts = 0,
                                !.reconnectDelay = 1000,
                                !.scheduled = 0,
                                !.emitted = <<"connection:established">>]
    /\ UNCHANGED <<events, shipments, now, connectedClients, roomSubscriptions,
                   result, subscriptions, published, dispatched, jobs, inflight,
                   server, pending>>

\* 'disconnect' on the socket for a reason of the transport or the server.
\* socket.io emits it for a socket that is open or opening (Socket.onclose
\* does not look at connected); after a loss of the transport its manager
\* opens the connection again by itself, after a disconnect of the server
\* it does not.
OnDisconnect(reasons) ==
    \E reason \in reasons :
        /\ client.socket = "connected"
           \/ (client.socket = "opening" /\ reason = "transport close")
        /\ Len(client.timers) < MaxTimers
        /\ client' = [onDisconnect([client EXCEPT !.emitted = <<>>], reason) EXCEPT
                          !.socket = IF reason = "io server disconnect"
                                     THEN "idle" ELSE "opening"]
        /\ UNCHANGED <<events, shipments, now, connectedClients, roomSubscriptions,
                       result, subscriptions, published, dispatched, jobs, inflight,
                       server, pending>>

\* 'authenticated' from the server
OnAuthenticated ==
    /\ client.socket = "connected"
    /\ client' = [client EXCEPT !.isAuthenticated = TRUE,
                                !.emitted = <<"auth:success">>]
    /\ UNCHANGED <<events, shipments, now, connectedClients, roomSubscriptions,
                   result, subscriptions, published, dispatched, jobs, inflight,
                   server, pending>>

\* 'subscribed' from the server
OnSubscribed(S) ==
    \E sid \in S :
        /\ client.socket = "connected"
        /\ client.isAuthenticated
        /\ client' = [client EXCEPT !.subscriptions = @ \cup {sid},
                                    !.emitted = <<"subscription:confirmed">>]
        /\ UNCHANGED <<events, shipments, now, connectedClients, roomSubscriptions,
                       result, subscriptions, published, dispatched, jobs, inflight,
                       server, pending>>

\* disconnect() of the client. socket.disconnect() on a connected socket
\* emits 'disconnect' with the reason "io client disconnect" before it
\* returns, so the handler of connect() runs first; then this.socket = null,
\* both flags false and the subscriptions cleared. No timer is cleared and
\* reconnectAttempts is left as it is.
ClientDisconnect ==
    /\ client.socket # "none"
    /\ Len(client.timers) < MaxTimers
    /\ LET called == [client EXCEPT !.emitted = <<>>]
           handled == IF client.socket = "connected"
                      THEN onDisconnect(called, "io client disconnect")
                      ELSE called
       IN  client' = [handled EXCEPT !.socket = "none",
                                     !.isConnected = FALSE,
                                     !.isAuthenticated = FALSE,
                                     !.subscriptions = {}]
    /\ UNCHANGED <<events, shipments, now, connectedClients, roomSubscriptions,
                   result, subscriptions, published, dispatched, jobs, inflight,
                   server, pending>>

\* A timer of handleReconnect fires: while the client is not connected it
\* emits connection:reconnecting and calls this.socket.connect(), which
\* opens an idle socket, does nothing on one that is opening, and raises a
\* TypeError when this.socket is null
ReconnectTimer ==
    \E i \in 1..Len(client.timers) :
        /\ LET rest == [j \in 1..(Len(client.timers) - 1) |->
                            IF j < i THEN client.timers[j] ELSE client.timers[j + 1]]
               fired == [client EXCEPT !.timers = rest, !.emitted = <<>>]
           IN  client' =
                   IF client.isConnected
                   THEN fired
                   ELSE [fired EXCEPT
                            !.emitted = <<"connection:reconnecting">>,
                            !.threw = @ \/ client.socket = "none",
                            !.socket = IF @ = "idle" THEN "opening" ELSE @]
        /\ UNCHANGED <<events, shipments, now, connectedClients, roomSubscriptions,
                       result, subscriptions, published, dispatched, jobs, inflight,
                       server, pending>>

NextClient ==
    \/ ClientConnect
    \/ OpenSocket
    \/ OnConnect
    \/ OnDisconnect(DisconnectReasons)
    \/ OnAuthenticated
    \/ OnSubscribed(ClientShipments)
    \/ ClientDisconnect
    \/ ReconnectTimer

SpecClient == Init /\ [][NextClient]_vars


-----------------------------------------------------------------------------
\* The names in a sequence of emitted client events
Emitted(c) == {c.emitted[i] : i \in 1..Len(c.emitted)}

\* A step in which handleReconnect was called: the handler of 'disconnect'
\* ran (connection:lost) for a reason other than a disconnect of the server
IsReconnectStep ==
    /\ client' # client
    /\ "connection:lost" \in Emitted(client')
    /\ "connection:terminated" \notin Emitted(client')

\* A step that sets a timer
IsScheduleStep == Len(client'.timers) > Len(client.timers)

\* C39: the reconnect of the push client is bounded. reconnectAttempts never
\* exceeds maxReconnectAttempts = 5 and no more than 5 attempts are scheduled
\* between two 'connect' events; the k-th attempt since the last 'connect'
\* is scheduled with the delay min(1000 * 2^(k-1), 30000) ms; 'connect'
\* resets reconnectAttempts to 0; and a call of handleReconnect at the limit
\* emits connection:failed and schedules nothing, while one below the limit
\* schedules one attempt and does not emit connection:failed.
C39_ReconnectBounded ==
    [][/\ client'.reconnectAttempts <= maxReconnectAttempts
       /\ client'.scheduled <= maxReconnectAttempts
       /\ "connection:established" \in Emitted(client') /\ client' # client
              => client'.reconnectAttempts = 0
       /\ IsScheduleStep =>
              /\ IsReconnectStep
              /\ client'.timers =
                     Append(client.timers,
                            [attempt |-> client'.scheduled,
                             delay |-> IF 1000 * 2 ^ (client'.scheduled - 1) < 30000
                                       THEN 1000 * 2 ^ (client'.scheduled - 1)
                                       ELSE 30000])
       /\ IsReconnectStep =>
              IF client.reconnectAttempts >= maxReconnectAttempts
              THEN /\ "connection:failed" \in Emitted(client')
                   /\ ~IsScheduleStep
                   /\ client'.reconnectAttempts = client.reconnectAttempts
              ELSE /\ "connection:failed" \notin Emitted(client')
                   /\ IsScheduleStep
                   /\ client'.reconnectAttempts = client.reconnectAttempts + 1
      ]_vars

\* The limit has been reached and connection:failed emitted: five attempts
\* were scheduled since the last 'connect', the fifth with 16000 ms
C39_Witness_LimitReached ==
    /\ client.reconnectAttempts = maxReconnectAttempts
    /\ client.scheduled = maxReconnectAttempts
    /\ "connection:failed" \in Emitted(client)
    /\ client.socket = "opening"


-----------------------------------------------------------------------------
\* The client has been disconnected by disconnect() and connect() has not
\* been called since: this.socket is null (it is null before the first
\* connect() too, where nothing below can fail)
ExplicitlyDisconnected == client.socket = "none"

C40_FlagsStayCleared ==
    ExplicitlyDisconnected =>
        /\ ~client.isConnected
        /\ ~client.isAuthenticated
        /\ client.subscriptions = {}

\* disconnect() of a connected client that had no timer pending and no
\* attempt counted leaves a timer behind: the one its own 'disconnect'
\* event made handleReconnect set
C40_DisconnectSchedulesNothing ==
    [][(client.socket = "connected" /\ client'.socket = "none")
           => client'.timers = client.timers]_vars

\* No timer callback dereferences this.socket while it is null
C40_NoUseOfReleasedSocket == ~client.threw

====
